---- MODULE Spec2Model ----
(***************************************************************************)
(* Model of the wsbfinder realtime chat: the Socket.IO relay of            *)
(* src/server.js, the chat page of src/unnamed/part_002 (ChatPage) and the *)
(* chat_messages table of src/lib/create_chat_messages_table.sql.          *)
(*                                                                         *)
(* Strings that the code sorts or concatenates (user ids, room ids, socket *)
(* ids) are sequences of one-character strings, so that createRoomId is    *)
(* computed the way the code computes it.  The empty sequence is the empty *)
(* string, which is falsy in JavaScript; it also stands for null/undefined *)
(* where the code only tests truthiness.                                   *)
(***************************************************************************)
EXTENDS Integers, Sequences, FiniteSets, TLC

\* ---------------------------------------------------------------- bounds
MaxConns == 2       \* connections opened in SpecPresence and SpecRelay
MaxEvents == 1      \* sendMessage events handled in SpecRelay
MaxDrops == 1       \* connections of a chat page that break in SpecSolo
MaxSubmits == 2     \* submits of the message form in Spec and SpecSolo
MaxClock == 2       \* largest reading of Date.now() / now()
MaxLiveSubmits == 1 \* submits of the message form in SpecLive
MaxSwitchSubmits == 1 \* submits of the message form in SpecSwitch
MaxIdLen == 2       \* length of the user ids in SpecRoomId
MaxHist == 2        \* length of the sequences drawn in SpecUnread
MaxTime == 3        \* largest time of a message drawn in SpecUnread
MaxWarnings == 2    \* refused submits of the message form in SpecBlank

\* ------------------------------------------------------- strings and ids
Nil == <<>>

A == <<"a">>
B == <<"b">>
C == <<"c">>
Users == {A, B}

Delim == <<"-", "-">>

\* UTF-16 code unit of the characters used in identifiers
CharCode(ch) ==
    CASE ch = "#" -> 35
      [] ch = "-" -> 45
      [] ch = "1" -> 49
      [] ch = "2" -> 50
      [] ch = "3" -> 51
      [] ch = "4" -> 52
      [] ch = "5" -> 53
      [] ch = "6" -> 54
      [] ch = "a" -> 97
      [] ch = "b" -> 98
      [] ch = "c" -> 99

\* s < t as JavaScript compares strings (code unit by code unit)
RECURSIVE StrLess(_, _)
StrLess(s, t) ==
    IF t = <<>> THEN FALSE
    ELSE IF s = <<>> THEN TRUE
    ELSE IF CharCode(Head(s)) < CharCode(Head(t)) THEN TRUE
    ELSE IF CharCode(Head(s)) > CharCode(Head(t)) THEN FALSE
    ELSE StrLess(Tail(s), Tail(t))

\* [x, y].sort(): the default comparator swaps when y < x
SortPair(x, y) == IF StrLess(y, x) THEN <<y, x>> ELSE <<x, y>>

\* a createRoomId that joins the ids in the order of its arguments
createRoomIdNoSort(userId1, userId2) == userId1 \o Delim \o userId2

\* a createRoomId that joins the sorted ids without a delimiter
createRoomIdNoDelim(userId1, userId2) ==
    LET s == SortPair(userId1, userId2) IN s[1] \o s[2]

\* [String(userId1), String(userId2)].sort().join("--")
createRoomId(userId1, userId2) ==
    LET s == SortPair(userId1, userId2) IN s[1] \o Delim \o s[2]

\* the users with the chat page open, and the matches each of them can select
Clients == {A, B}

\* user ids of any form: the strings of up to MaxIdLen characters that do
\* not contain the delimiter
IdChars == {"#", "-", "b"}

ContainsDelim(s) == \E i \in 1..(Len(s) - 1) : s[i] = "-" /\ s[i + 1] = "-"

Ids == {s \in UNION {[1..n -> IdChars] : n \in 1..MaxIdLen} : ~ContainsDelim(s)}

Peers(u) == IF u = A THEN {B, C} ELSE {A}

\* the rooms of the pages
AllRooms == {createRoomId(u, m) : u \in Clients, m \in {A, B, C}}

\* the users who type and submit messages in Spec
Senders == {A}

\* what the user types for the k-th submit of a run
TextOf(k) == IF k = 1 THEN "hi" ELSE "yo"

Conns == 1..(MaxConns + MaxDrops)

RelayConns == 1..MaxConns

SidChar(c) ==
    CASE c = 1 -> "1" [] c = 2 -> "2" [] c = 3 -> "3" [] c = 4 -> "4"
      [] c = 5 -> "5" [] OTHER -> "6"

\* socket.id of connection c
SocketId(c) == <<"#", SidChar(c)>>

Texts == {"hi", "yo"}

\* ----------------------------------------------------------------- state
VARIABLES
    connState,      \* relay side of each connection: "new", "open", "closed"
    userSocketMap,  \* Map<userId, socketId>, entries in insertion order
    rooms,          \* rooms[c]: the rooms socket c is in (Socket.IO adapter)
    inbox,          \* inbox[c]: receiveMessage events emitted to socket c
    sent,           \* history: the sendMessage events the relay has handled
    lastReg,        \* history: the connection that last registered each user
    prevReg,        \* history: the connection that registered the user before that one
    outbox,         \* outbox[c]: events emitted by the page on socket c, not yet handled
    clock,          \* the latest reading of the clock
    store,          \* the rows of chat_messages, in insertion order
    sends,          \* the calls of handleSend, in submit order, with their progress
    fetches,        \* fetches[u]: the calls of fetchHistory in flight
    message,        \* message[u]: the text of the input
    chatHistory,    \* chatHistory[u]
    selectedChatId, \* selectedChatId[u]
    currentRoomId,  \* currentRoomId[u] (currentRoomIdRef follows it after each render)
    socketSet,      \* socketSet[u]: the module variable socket is not null
    isSocketConnected, \* isSocketConnected[u]
    link,           \* link[u]: the connection of the page's Socket, 0 when not connected
    recvLog,        \* history: the submits whose relay was appended by receiveMessageHandler
    loaded,         \* history: the room of the last history load, Nil if it failed
    lastViewedTimestamps, \* lastViewedTimestamps[u][roomId], 0 when there is no entry
    warnings        \* warnings[u]: what console.warn("Cannot send message:") has logged

relayVars == <<connState, userSocketMap, rooms, inbox, sent, lastReg, prevReg>>

pageVars == <<outbox, clock, store, sends, fetches, message, chatHistory, selectedChatId,
              currentRoomId, socketSet, isSocketConnected, link, recvLog, loaded,
              lastViewedTimestamps, warnings>>

vars == <<relayVars, pageVars>>

\* ------------------------------------------------ Map<userId, socketId>
MapHas(m, k) == \E i \in 1..Len(m) : m[i].userId = k

MapGet(m, k) == m[CHOOSE i \in 1..Len(m) : m[i].userId = k].socketId

\* Map.prototype.set: an existing key keeps its position
MapSet(m, k, v) ==
    IF MapHas(m, k)
    THEN [i \in 1..Len(m) |-> IF m[i].userId = k THEN [userId |-> k, socketId |-> v] ELSE m[i]]
    ELSE Append(m, [userId |-> k, socketId |-> v])

RemoveAt(s, i) == [j \in 1..(Len(s) - 1) |-> IF j < i THEN s[j] ELSE s[j + 1]]

\* a disconnect that forgets to compare the stored socket id
UnregisterNoCheck(m, sid) == IF Len(m) > 0 THEN Tail(m) ELSE m

\* the loop of the disconnect handler: delete the first entry whose value
\* is this socket's id, then break
Unregister(m, sid) ==
    IF \E i \in 1..Len(m) : m[i].socketId = sid
    THEN RemoveAt(m, CHOOSE i \in 1..Len(m) :
                        /\ m[i].socketId = sid
                        /\ \A j \in 1..(i - 1) : m[j].socketId # sid)
    ELSE m

\* ---------------------------------------------------------- relay handlers
\* io.to(roomId): every socket of the room, the sender included
RecipientsInclSender(c, roomId) ==
    {d \in Conns : connState[d] = "open" /\ roomId \in rooms[d]}

\* io.emit: every connected socket but the sender, whatever its rooms
RecipientsBroadcast(c, roomId) ==
    {d \in Conns : connState[d] = "open" /\ d # c}

\* a relay that skips the first member of the room
RecipientsSkipOne(c, roomId) ==
    LET all == {d \in Conns : connState[d] = "open" /\ d # c /\ roomId \in rooms[d]}
    IN  IF all = {} THEN {} ELSE all \ {CHOOSE d \in all : \A e \in all : d <= e}

\* socket.to(roomId): the sockets of the room except the sender
Recipients(c, roomId) ==
    {d \in Conns : connState[d] = "open" /\ d # c /\ roomId \in rooms[d]}

\* the payload the relay emits: { text, roomId, senderId }
\* (history fields: ev, the number of the sendMessage event; from, the socket
\* it came from; tag, the submit of the chat page it belongs to, 0 if none)
RelayPayload(c, data) ==
    [text |-> data.text, roomId |-> data.roomId, senderId |-> data.senderId,
     ev |-> Len(sent) + 1, from |-> c, tag |-> data.tag]

\* io.on("connection"): Socket.IO puts the socket in the room named by its id
OnConnection(c) ==
    /\ connState[c] = "new"
    /\ \A d \in 1..(c - 1) : connState[d] # "new"
    /\ connState' = [connState EXCEPT ![c] = "open"]
    /\ rooms' = [rooms EXCEPT ![c] = {SocketId(c)}]
    /\ UNCHANGED <<userSocketMap, inbox, sent, lastReg, prevReg>>

\* a registerUser handler that writes the map anew from a copy it read
\* before the other registrations
OnRegisterUserReset(c, userId) ==
    /\ IF userId # Nil
       THEN /\ userSocketMap' = <<[userId |-> userId, socketId |-> SocketId(c)]>>
            /\ lastReg' = [lastReg EXCEPT ![userId] = c]
            /\ prevReg' = IF lastReg[userId] \in {0, c} THEN prevReg
                          ELSE [prevReg EXCEPT ![userId] = lastReg[userId]]
       ELSE UNCHANGED <<userSocketMap, lastReg, prevReg>>
    /\ UNCHANGED <<connState, rooms, inbox, sent>>

OnRegisterUser(c, userId) ==
    /\ IF userId # Nil
       THEN /\ userSocketMap' = MapSet(userSocketMap, userId, SocketId(c))
            /\ lastReg' = [lastReg EXCEPT ![userId] = c]
            /\ prevReg' = IF lastReg[userId] \in {0, c} THEN prevReg
                          ELSE [prevReg EXCEPT ![userId] = lastReg[userId]]
       ELSE UNCHANGED <<userSocketMap, lastReg, prevReg>>
    /\ UNCHANGED <<connState, rooms, inbox, sent>>

\* a joinRoom handler that takes the socket out of its other rooms
OnJoinRoomOnly(c, roomId) ==
    /\ rooms' = [rooms EXCEPT ![c] = {roomId}]
    /\ UNCHANGED <<connState, userSocketMap, inbox, sent, lastReg, prevReg>>

OnJoinRoom(c, roomId) ==
    /\ rooms' = [rooms EXCEPT ![c] = @ \cup {roomId}]
    /\ UNCHANGED <<connState, userSocketMap, inbox, sent, lastReg, prevReg>>

\* a leaveRoom handler that does not call socket.leave
OnLeaveRoomNoop(c, roomId) ==
    /\ rooms' = rooms
    /\ UNCHANGED <<connState, userSocketMap, inbox, sent, lastReg, prevReg>>

OnLeaveRoom(c, roomId) ==
    /\ rooms' = [rooms EXCEPT ![c] = @ \ {roomId}]
    /\ UNCHANGED <<connState, userSocketMap, inbox, sent, lastReg, prevReg>>

\* a payload without text: text is undefined
NoText == ""

\* a sendMessage event without payload: data is undefined
Undefined == [undefined |-> TRUE]

\* the Node process ends: every connection is gone, none is accepted any
\* more, and the memory of the relay is lost
ProcessExit ==
    /\ connState' = [d \in Conns |-> "closed"]
    /\ rooms' = [d \in Conns |-> {}]
    /\ userSocketMap' = <<>>
    /\ UNCHANGED <<inbox, sent, lastReg, prevReg>>

\* a sendMessage handler that takes the sender out of the room
OnSendMessageLeaves(c, data) ==
    /\ inbox' = [d \in Conns |->
                    IF d \in Recipients(c, data.roomId)
                    THEN Append(inbox[d], RelayPayload(c, data))
                    ELSE inbox[d]]
    /\ sent' = Append(sent, RelayPayload(c, data))
    /\ rooms' = [rooms EXCEPT ![c] = @ \ {data.roomId}]
    /\ UNCHANGED <<connState, userSocketMap, lastReg, prevReg>>

\* Destructuring an undefined payload throws a TypeError in the listener;
\* no handler of server.js catches it, so it is an uncaught exception: the
\* process ends, unless the runtime has installed a handler that logs it
\* (the Next.js development server does), and then the event is dropped.
\* A field that is missing from the payload is undefined (Nil) and is
\* relayed as it is.
OnSendMessage(c, data) ==
    IF data = Undefined
    THEN \/ ProcessExit
         \/ UNCHANGED relayVars
    ELSE /\ inbox' = [d \in Conns |->
                         IF d \in Recipients(c, data.roomId)
                         THEN Append(inbox[d], RelayPayload(c, data))
                         ELSE inbox[d]]
         /\ sent' = Append(sent, RelayPayload(c, data))
         /\ UNCHANGED <<connState, userSocketMap, rooms, lastReg, prevReg>>

\* Socket.IO removes the socket from all its rooms, then runs the handler
OnDisconnect(c) ==
    /\ connState' = [connState EXCEPT ![c] = "closed"]
    /\ rooms' = [rooms EXCEPT ![c] = {}]
    /\ userSocketMap' = Unregister(userSocketMap, SocketId(c))
    /\ UNCHANGED <<inbox, sent, lastReg, prevReg>>

\* ------------------------------------------------------------------ Init
PageInit ==
    /\ outbox = [c \in Conns |-> <<>>]
    /\ clock = 1
    /\ store = <<>>
    /\ sends = <<>>
    /\ fetches = [u \in Clients |-> <<>>]
    /\ message = [u \in Clients |-> ""]
    /\ chatHistory = [u \in Clients |-> <<>>]
    /\ selectedChatId = [u \in Clients |-> Nil]
    /\ currentRoomId = [u \in Clients |-> Nil]
    /\ socketSet = [u \in Clients |-> TRUE]
    /\ isSocketConnected = [u \in Clients |-> FALSE]
    /\ link = [u \in Clients |-> 0]
    /\ recvLog = [u \in Clients |-> <<>>]
    /\ loaded = [u \in Clients |-> Nil]
    /\ lastViewedTimestamps = [u \in Clients |-> [r \in AllRooms |-> 0]]
    /\ warnings = [u \in Clients |-> <<>>]

RelayInit ==
    /\ PageInit
    /\ connState = [c \in Conns |-> "new"]
    /\ userSocketMap = <<>>
    /\ rooms = [c \in Conns |-> {}]
    /\ inbox = [c \in Conns |-> <<>>]
    /\ sent = <<>>
    /\ lastReg = [u \in Users |-> 0]
    /\ prevReg = [u \in Users |-> 0]

\* --------------------------------------- the relay driven by any clients
RelayRoomIds == {createRoomId(A, B), SocketId(1)}

RelayConnect == \E c \in RelayConns : OnConnection(c) /\ UNCHANGED pageVars

RelayRegisterUser ==
    \E c \in Conns : \E userId \in Users \cup {Nil} :
        connState[c] = "open" /\ OnRegisterUser(c, userId) /\ UNCHANGED pageVars

RelayJoinRoom ==
    \E c \in Conns : \E roomId \in RelayRoomIds :
        connState[c] = "open" /\ OnJoinRoom(c, roomId) /\ UNCHANGED pageVars

RelayLeaveRoom ==
    \E c \in Conns : \E roomId \in RelayRoomIds :
        connState[c] = "open" /\ OnLeaveRoom(c, roomId) /\ UNCHANGED pageVars

\* the sendMessage payloads clients send in SpecRelay
RelayData ==
    {[text |-> "hi", roomId |-> createRoomId(A, B), senderId |-> A],
     [text |-> "yo", roomId |-> SocketId(1), senderId |-> B]}

RelaySendMessage ==
    \E c \in Conns : \E d \in RelayData :
        /\ connState[c] = "open"
        /\ Len(sent) < MaxEvents
        /\ OnSendMessage(c, [text |-> d.text, roomId |-> d.roomId, senderId |-> d.senderId,
                             tag |-> 0])
        /\ UNCHANGED pageVars

RelayDisconnect ==
    \E c \in Conns : connState[c] = "open" /\ OnDisconnect(c) /\ UNCHANGED pageVars

\* The presence registry driven by any clients: the handlers that read or
\* write userSocketMap.
PresenceNext ==
    \/ RelayConnect
    \/ RelayRegisterUser
    \/ RelayDisconnect

SpecPresence == RelayInit /\ [][PresenceNext]_vars

\* Room membership and dispatch driven by any clients: the handlers that
\* read or write the rooms; none of them reads userSocketMap.
RelayNext ==
    \/ RelayConnect
    \/ RelayJoinRoom
    \/ RelayLeaveRoom
    \/ RelaySendMessage
    \/ RelayDisconnect

SpecRelay == RelayInit /\ [][RelayNext]_vars

\* The whole relay driven by any clients: every handler of a connection.
ServerNext ==
    \/ RelayConnect
    \/ RelayRegisterUser
    \/ RelayJoinRoom
    \/ RelayLeaveRoom
    \/ RelaySendMessage
    \/ RelayDisconnect

SpecServer == RelayInit /\ [][ServerNext]_vars

\* ============================================================ the chat page
\* --------------------------------------------------------------- helpers
\* a reading of the clock: the latest reading again, or a later one
Readings == {clock} \cup (IF clock < MaxClock THEN {clock + 1} ELSE {})

\* `${userId}-${Date.now()}`
TempId(userId, t) == [kind |-> "tmp", user |-> userId, n |-> t]

\* the id the store generates for its n-th row (gen_random_uuid())
DbId(n) == [kind |-> "db", user |-> Nil, n |-> n]

\* created_at absent (undefined)
NoTime == [t |-> 0, n |-> 0]

\* new Date(created_at).getTime()
GetTime(created_at) == created_at.t

\* prev.filter((msg) => msg.id !== tempId)
RemoveTemp(prev, tempId) == LET Keep(m) == m.id # tempId IN SelectSeq(prev, Keep)

\* prev.map((msg) => msg.id === tempId ? {...msg, id, timestamp, created_at} : msg)
ConfirmTemp(prev, tempId, row) ==
    [i \in 1..Len(prev) |->
        IF prev[i].id = tempId
        THEN [prev[i] EXCEPT !.id = row.id,
                             !.timestamp = GetTime(row.created_at),
                             !.created_at = row.created_at]
        ELSE prev[i]]

\* chatHistory.filter((msg) => msg.roomId === currentRoomId)
filteredChatHistory(u) ==
    LET Keep(m) == m.roomId = currentRoomId[u] IN SelectSeq(chatHistory[u], Keep)

\* a query that selects the rows of the other rooms
RoomRowsOther(roomId) == LET Keep(r) == r.room_id # roomId IN SelectSeq(store, Keep)

\* lastViewedTimestamps[currentRoomId] || 0
lastViewedTime(u) ==
    IF currentRoomId[u] # Nil THEN lastViewedTimestamps[u][currentRoomId[u]] ELSE 0

\* msg.created_at ? new Date(msg.created_at).getTime() : msg.timestamp
MessageTime(msg) ==
    IF msg.created_at # NoTime THEN GetTime(msg.created_at) ELSE msg.timestamp

\* a findIndex callback that does not look at the sender
IsUnreadAnySender(u, msg) == MessageTime(msg) > lastViewedTime(u)

\* the callback of findIndex: after the last view and not sent by the user
IsUnread(u, msg) == MessageTime(msg) > lastViewedTime(u) /\ msg.sender # "me"

\* findLastIndex in the place of findIndex
lastUnreadIndex(u) ==
    LET f == filteredChatHistory(u)
    IN  IF lastViewedTime(u) > 0 /\ \E i \in 1..Len(f) : IsUnread(u, f[i])
        THEN (CHOOSE i \in 1..Len(f) :
                /\ IsUnread(u, f[i])
                /\ \A j \in (i + 1)..Len(f) : ~IsUnread(u, f[j])) - 1
        ELSE -1

\* lastViewedTime > 0 ? filteredChatHistory.findIndex(...) : -1, counted
\* from 0 as findIndex does
firstUnreadIndex(u) ==
    LET f == filteredChatHistory(u)
    IN  IF lastViewedTime(u) > 0 /\ \E i \in 1..Len(f) : IsUnread(u, f[i])
        THEN (CHOOSE i \in 1..Len(f) :
                /\ IsUnread(u, f[i])
                /\ \A j \in 1..(i - 1) : ~IsUnread(u, f[j])) - 1
        ELSE -1

\* .eq("room_id", roomId).order("created_at", { ascending: true }): the rows
\* of the room; store holds the rows in ascending created_at
RoomRows(roomId) == LET Keep(r) == r.room_id = roomId IN SelectSeq(store, Keep)

\* a fetchHistory that puts the fetched rows after the entries it finds
FormatHistoryKeepPrev(u, data) ==
    chatHistory[u] \o
    [i \in 1..Len(data) |->
        [id |-> data[i].id,
         text |-> data[i].message_text,
         sender |-> IF data[i].sender_id = u THEN "me" ELSE "other",
         roomId |-> data[i].room_id,
         timestamp |-> GetTime(data[i].created_at),
         senderId |-> data[i].sender_id,
         created_at |-> data[i].created_at,
         tag |-> data[i].tag]]

\* data.map(...) of fetchHistory
FormatHistory(u, data) ==
    [i \in 1..Len(data) |->
        [id |-> data[i].id,
         text |-> data[i].message_text,
         sender |-> IF data[i].sender_id = u THEN "me" ELSE "other",
         roomId |-> data[i].room_id,
         timestamp |-> GetTime(data[i].created_at),
         senderId |-> data[i].sender_id,
         created_at |-> data[i].created_at,
         tag |-> data[i].tag]]

\* socket.emit on the page's socket: the event is lost when the relay has
\* already closed the connection
EmitAll(c, evs) ==
    IF c # 0 /\ connState[c] = "open" THEN [outbox EXCEPT ![c] = @ \o evs] ELSE outbox

\* a room effect without the cleanup of the previous run
RoomEffectNoCleanup(u, selected, isConnected, sockSet, sockConnected) ==
    LET ref == currentRoomId[u]
        targetRoomId == IF selected # Nil THEN createRoomId(u, selected) ELSE Nil
    IN  IF targetRoomId # Nil /\ sockSet /\ isConnected
        THEN IF targetRoomId # ref
             THEN [emits |-> <<[type |-> "joinRoom", roomId |-> targetRoomId]>>,
                   room |-> targetRoomId, fetch |-> targetRoomId, clear |-> FALSE]
             ELSE [emits |-> <<>>, room |-> ref, fetch |-> Nil, clear |-> FALSE]
        ELSE IF ref # Nil /\ sockSet /\ sockConnected
             THEN [emits |-> <<[type |-> "leaveRoom", roomId |-> ref]>>,
                   room |-> Nil, fetch |-> Nil, clear |-> TRUE]
             ELSE [emits |-> <<>>, room |-> ref, fetch |-> Nil, clear |-> FALSE]

\* The effect on [selectedChatId, currentUserId, isSocketConnected]: the
\* cleanup of the previous run, then the new run.  ref is currentRoomIdRef,
\* sockConnected is socket.connected.  The result: the events emitted, the
\* new currentRoomId, the room whose history is fetched (Nil: none), and
\* whether chatHistory is cleared.
RoomEffect(u, selected, isConnected, sockSet, sockConnected) ==
    LET ref == currentRoomId[u]
        cleanup == IF ref # Nil /\ sockSet /\ sockConnected
                   THEN <<[type |-> "leaveRoom", roomId |-> ref]>>
                   ELSE <<>>
        targetRoomId == IF selected # Nil THEN createRoomId(u, selected) ELSE Nil
    IN  IF targetRoomId # Nil /\ sockSet /\ isConnected
        THEN IF targetRoomId # ref
             THEN [emits |-> cleanup \o <<[type |-> "joinRoom", roomId |-> targetRoomId]>>,
                   room |-> targetRoomId, fetch |-> targetRoomId, clear |-> FALSE]
             ELSE [emits |-> cleanup, room |-> ref, fetch |-> Nil, clear |-> FALSE]
        ELSE IF ref # Nil /\ sockSet /\ sockConnected
             THEN [emits |-> cleanup \o <<[type |-> "leaveRoom", roomId |-> ref]>>,
                   room |-> Nil, fetch |-> Nil, clear |-> TRUE]
             ELSE [emits |-> cleanup, room |-> ref, fetch |-> Nil, clear |-> FALSE]

\* the state updates of one run of the effect
ApplyRoomEffect(u, eff) ==
    /\ currentRoomId' = [currentRoomId EXCEPT ![u] = eff.room]
    /\ fetches' = IF eff.fetch # Nil
                  THEN [fetches EXCEPT ![u] = Append(@, [roomId |-> eff.fetch,
                                                         stage |-> "query", rows |-> <<>>])]
                  ELSE fetches
    /\ chatHistory' = IF eff.clear THEN [chatHistory EXCEPT ![u] = <<>>] ELSE chatHistory

\* ------------------------------------------------------ socket lifecycle
\* The relay accepts the connection of u's socket and the page's connect
\* handler runs: setIsSocketConnected(true), emit registerUser, then the
\* room effect.
Connect(u) ==
    /\ link[u] = 0
    /\ \E c \in Conns :
        /\ OnConnection(c)
        /\ link' = [link EXCEPT ![u] = c]
        /\ isSocketConnected' = [isSocketConnected EXCEPT ![u] = TRUE]
        /\ LET eff == RoomEffect(u, selectedChatId[u], TRUE, socketSet[u], TRUE)
           IN  /\ outbox' = [outbox EXCEPT ![c] =
                                <<[type |-> "registerUser", userId |-> u]>> \o eff.emits]
               /\ ApplyRoomEffect(u, eff)
    /\ UNCHANGED <<clock, store, sends, message, selectedChatId, socketSet, recvLog, loaded,
                   lastViewedTimestamps, warnings>>

\* the connections that have broken: closed on one side at least
Broken == {c \in Conns : connState[c] = "closed"
                          \/ (connState[c] = "open" /\ \A u \in Clients : link[u] # c)}

\* another connection may break, or this one already has
MayClose(c) == c \in Broken \/ Cardinality(Broken) < MaxDrops

\* the page's disconnect handler: setIsSocketConnected(false), socket = null
ClientDisconnect(u) ==
    /\ link[u] # 0
    /\ MayClose(link[u])
    /\ link' = [link EXCEPT ![u] = 0]
    /\ isSocketConnected' = [isSocketConnected EXCEPT ![u] = FALSE]
    /\ socketSet' = [socketSet EXCEPT ![u] = FALSE]
    /\ inbox' = [inbox EXCEPT ![link[u]] = <<>>]
    /\ LET eff == RoomEffect(u, selectedChatId[u], FALSE, FALSE, FALSE)
       IN  /\ outbox' = EmitAll(link[u], eff.emits)
           /\ ApplyRoomEffect(u, eff)
    /\ UNCHANGED <<connState, userSocketMap, rooms, sent, lastReg, prevReg>>
    /\ UNCHANGED <<clock, store, sends, message, selectedChatId, recvLog, loaded,
                   lastViewedTimestamps, warnings>>

\* the relay's side of a connection closes; events not yet handled are lost
ServerDisconnect(c) ==
    /\ connState[c] = "open"
    /\ MayClose(c)
    /\ OnDisconnect(c)
    /\ outbox' = [outbox EXCEPT ![c] = <<>>]
    /\ UNCHANGED <<clock, store, sends, fetches, message, chatHistory, selectedChatId,
                   currentRoomId, socketSet, isSocketConnected, link, recvLog, loaded,
                   lastViewedTimestamps, warnings>>

\* the relay handles the next event of connection c
ServerRecv(c) ==
    /\ connState[c] = "open"
    /\ outbox[c] # <<>>
    /\ LET ev == Head(outbox[c])
       IN  CASE ev.type = "registerUser" -> OnRegisterUser(c, ev.userId)
             [] ev.type = "joinRoom" -> OnJoinRoom(c, ev.roomId)
             [] ev.type = "leaveRoom" -> OnLeaveRoom(c, ev.roomId)
             [] ev.type = "sendMessage" -> OnSendMessage(c, ev.data)
    /\ outbox' = [outbox EXCEPT ![c] = Tail(@)]
    /\ UNCHANGED <<clock, store, sends, fetches, message, chatHistory, selectedChatId,
                   currentRoomId, socketSet, isSocketConnected, link, recvLog, loaded,
                   lastViewedTimestamps, warnings>>

\* a handler that takes every message for a peer's
IsOwnMessageNever(u, msg) == FALSE

\* the message carries the user's own id: the handler returns at once
IsOwnMessage(u, msg) == msg.senderId = u

\* a handler that takes the messages of every room
IsActiveRoomAlways(u, msg) == TRUE

\* msg.roomId === activeRoomId, the value of currentRoomIdRef
IsActiveRoom(u, msg) == msg.roomId = currentRoomId[u]

\* receiveMessageHandler on the next receiveMessage event of u's socket
ClientRecv(u) ==
    /\ link[u] # 0
    /\ inbox[link[u]] # <<>>
    /\ LET msg == Head(inbox[link[u]])
       IN  IF ~IsOwnMessage(u, msg) /\ IsActiveRoom(u, msg)
           THEN /\ chatHistory' = [chatHistory EXCEPT ![u] = Append(@,
                        [id |-> TempId(msg.senderId, clock),
                         text |-> msg.text,
                         sender |-> "other",
                         roomId |-> msg.roomId,
                         timestamp |-> clock,
                         senderId |-> msg.senderId,
                         created_at |-> NoTime,
                         tag |-> msg.tag])]
                /\ recvLog' = [recvLog EXCEPT ![u] = Append(@, msg.tag)]
           ELSE UNCHANGED <<chatHistory, recvLog>>
    /\ inbox' = [inbox EXCEPT ![link[u]] = Tail(@)]
    /\ UNCHANGED <<connState, userSocketMap, rooms, sent, lastReg, prevReg>>
    /\ UNCHANGED <<outbox, clock, store, sends, fetches, message, selectedChatId, currentRoomId,
                   socketSet, isSocketConnected, link, loaded,
                   lastViewedTimestamps, warnings>>

\* ------------------------------------------------------------- the user
\* handleSelectChat, then the room effect
SelectChat(u, matchId) ==
    /\ matchId # selectedChatId[u]
    /\ StrLess(selectedChatId[u], matchId)   \* the user goes down the list of matches
    /\ selectedChatId' = [selectedChatId EXCEPT ![u] = matchId]
    /\ LET eff == RoomEffect(u, matchId, isSocketConnected[u], socketSet[u], link[u] # 0)
       IN  /\ outbox' = EmitAll(link[u], eff.emits)
           /\ ApplyRoomEffect(u, eff)
    /\ UNCHANGED relayVars
    /\ UNCHANGED <<clock, store, sends, message, socketSet, isSocketConnected, link,
                   recvLog, loaded,
                   lastViewedTimestamps, warnings>>

\* onChange of the input, which is rendered once a match is selected and is
\* disabled while isSocketConnected is false
Type(u, text) ==
    /\ selectedChatId[u] # Nil
    /\ isSocketConnected[u]
    /\ message[u] = ""
    /\ message' = [message EXCEPT ![u] = text]
    /\ UNCHANGED relayVars
    /\ UNCHANGED <<outbox, clock, store, sends, fetches, chatHistory, selectedChatId,
                   currentRoomId, socketSet, isSocketConnected, link, recvLog, loaded,
                   lastViewedTimestamps, warnings>>

\* String.prototype.trim on the texts a user types: white space at both
\* ends is removed
trim(text) ==
    CASE text = " " -> ""
      [] text = " hi" -> "hi"
      [] OTHER -> text

\* a condition of handleSend that takes any text, blank or not
CanSendAnyText(u) ==
    /\ socketSet[u]
    /\ isSocketConnected[u]
    /\ currentRoomId[u] # Nil
    /\ selectedChatId[u] # Nil

\* the condition of handleSend
CanSend(u) ==
    /\ socketSet[u]
    /\ isSocketConnected[u]
    /\ trim(message[u]) # ""
    /\ currentRoomId[u] # Nil
    /\ selectedChatId[u] # Nil

\* handleSend up to the await: the optimistic entry and the insert request
Submit(u) ==
    /\ CanSend(u)
    /\ Len(sends) < MaxSubmits
    /\ \E t \in Readings :
        /\ clock' = t
        /\ chatHistory' = [chatHistory EXCEPT ![u] = Append(@,
                [id |-> TempId(u, t),
                 text |-> message[u],
                 sender |-> "me",
                 roomId |-> currentRoomId[u],
                 timestamp |-> t,
                 senderId |-> u,
                 created_at |-> NoTime,
                 tag |-> Len(sends) + 1])]
        /\ sends' = Append(sends,
                [u |-> u, tempId |-> TempId(u, t), text |-> message[u],
                 roomId |-> currentRoomId[u], stage |-> "insert", row |-> 0,
                 confirmed |-> FALSE, failed |-> FALSE, emitted |-> FALSE])
    /\ message' = [message EXCEPT ![u] = ""]
    /\ UNCHANGED relayVars
    /\ UNCHANGED <<outbox, store, fetches, selectedChatId, currentRoomId, socketSet,
                   isSocketConnected, link, recvLog, loaded,
                   lastViewedTimestamps, warnings>>

\* handleSend when its condition fails: the else branch, which only calls
\* console.warn
SubmitRefused(u) ==
    /\ ~CanSend(u)
    /\ Len(warnings[u]) < MaxWarnings
    /\ warnings' = [warnings EXCEPT ![u] = Append(@,
            [hasMessage |-> trim(message[u]) # "",
             isConnected |-> isSocketConnected[u],
             hasRoom |-> currentRoomId[u] # Nil,
             hasSelectedChat |-> selectedChatId[u] # Nil,
             hasSocket |-> socketSet[u]])]
    /\ UNCHANGED relayVars
    /\ UNCHANGED <<outbox, clock, store, sends, fetches, message, chatHistory, selectedChatId,
                   currentRoomId, socketSet, isSocketConnected, link, recvLog, loaded,
                   lastViewedTimestamps>>

\* handleSend, called in any state of the page
handleSend(u) == Submit(u) \/ SubmitRefused(u)

\* ------------------------------------------------------------ the store
\* an insert that stores the id and the timestamp the client made up
StoreInsertClientId(k) ==
    /\ sends[k].stage = "insert"
    /\ store' = Append(store,
            [id |-> sends[k].tempId,
             room_id |-> sends[k].roomId,
             sender_id |-> sends[k].u,
             message_text |-> sends[k].text,
             created_at |-> [t |-> sends[k].tempId.n, n |-> Len(store) + 1],
             tag |-> k])
    /\ sends' = [sends EXCEPT ![k].stage = "ok", ![k].row = Len(store) + 1]
    /\ UNCHANGED relayVars
    /\ UNCHANGED <<outbox, clock, fetches, message, chatHistory, selectedChatId, currentRoomId,
                   socketSet, isSocketConnected, link, recvLog, loaded,
                   lastViewedTimestamps, warnings>>

\* an insert that is tried again after an error result, and then succeeds
StoreInsertAgain(k) ==
    /\ sends[k].stage \in {"insert", "error"}
    /\ store' = Append(store,
            [id |-> DbId(Len(store) + 1),
             room_id |-> sends[k].roomId,
             sender_id |-> sends[k].u,
             message_text |-> sends[k].text,
             created_at |-> [t |-> clock, n |-> Len(store) + 1],
             tag |-> k])
    /\ sends' = [sends EXCEPT ![k].stage = "ok", ![k].row = Len(store) + 1]
    /\ UNCHANGED relayVars
    /\ UNCHANGED <<outbox, clock, fetches, message, chatHistory, selectedChatId, currentRoomId,
                   socketSet, isSocketConnected, link, recvLog, loaded,
                   lastViewedTimestamps, warnings>>

\* the insert of send k succeeds: the store assigns id and created_at
StoreInsert(k) ==
    /\ sends[k].stage = "insert"
    /\ store' = Append(store,
            [id |-> DbId(Len(store) + 1),
             room_id |-> sends[k].roomId,
             sender_id |-> sends[k].u,
             message_text |-> sends[k].text,
             created_at |-> [t |-> clock, n |-> Len(store) + 1],
             tag |-> k])
    /\ sends' = [sends EXCEPT ![k].stage = "ok", ![k].row = Len(store) + 1]
    /\ UNCHANGED relayVars
    /\ UNCHANGED <<outbox, clock, fetches, message, chatHistory, selectedChatId, currentRoomId,
                   socketSet, isSocketConnected, link, recvLog, loaded,
                   lastViewedTimestamps, warnings>>

\* the insert of send k fails: an error result, or a rejected promise
InsertFails(k, how) ==
    /\ sends[k].stage = "insert"
    /\ sends' = [sends EXCEPT ![k].stage = how]
    /\ UNCHANGED relayVars
    /\ UNCHANGED <<outbox, clock, store, fetches, message, chatHistory, selectedChatId,
                   currentRoomId, socketSet, isSocketConnected, link, recvLog, loaded,
                   lastViewedTimestamps, warnings>>

\* a handleSend whose error branch does not return
ReachesEmitNoReturn(result) == result \in {"ok", "error"}

\* whether handleSend reaches step 3 (socket.emit): not after the return of
\* the error branch, not after a rejected insert
ReachesEmit(result) == result = "ok"

\* a handleSend that reads the room of the emitted event after the await
SendResumeCurrentRoom(k) ==
    LET s == sends[k]
        u == s.u
        h1 == IF s.stage = "error" THEN RemoveTemp(chatHistory[u], s.tempId)
              ELSE IF s.stage = "ok" THEN ConfirmTemp(chatHistory[u], s.tempId, store[s.row])
              ELSE chatHistory[u]
        emitting == ReachesEmit(s.stage)
        \* socket.emit throws a TypeError when socket is null
        caught == s.stage = "throw" \/ (emitting /\ ~socketSet[u])
        h2 == IF caught THEN RemoveTemp(h1, s.tempId) ELSE h1
    IN  /\ s.stage \in {"ok", "error", "throw"}
        /\ chatHistory' = [chatHistory EXCEPT ![u] = h2]
        /\ message' = IF s.stage = "error" \/ caught
                      THEN [message EXCEPT ![u] = s.text]
                      ELSE message
        /\ outbox' = IF emitting /\ socketSet[u]
                     THEN EmitAll(link[u],
                            <<[type |-> "sendMessage",
                               data |-> [text |-> s.text, roomId |-> currentRoomId[u],
                                         senderId |-> u, tag |-> k]]>>)
                     ELSE outbox
        /\ sends' = [sends EXCEPT ![k].stage = "done",
                                  ![k].confirmed = (s.stage = "ok"),
                                  ![k].failed = (s.stage = "error" \/ caught),
                                  ![k].emitted = (emitting /\ socketSet[u])]
        /\ UNCHANGED relayVars
        /\ UNCHANGED <<clock, store, fetches, selectedChatId, currentRoomId, socketSet,
                       isSocketConnected, link, recvLog, loaded,
                   lastViewedTimestamps, warnings>>

\* handleSend after the await
SendResume(k) ==
    LET s == sends[k]
        u == s.u
        h1 == IF s.stage = "error" THEN RemoveTemp(chatHistory[u], s.tempId)
              ELSE IF s.stage = "ok" THEN ConfirmTemp(chatHistory[u], s.tempId, store[s.row])
              ELSE chatHistory[u]
        emitting == ReachesEmit(s.stage)
        \* socket.emit throws a TypeError when socket is null
        caught == s.stage = "throw" \/ (emitting /\ ~socketSet[u])
        h2 == IF caught THEN RemoveTemp(h1, s.tempId) ELSE h1
    IN  /\ s.stage \in {"ok", "error", "throw"}
        /\ chatHistory' = [chatHistory EXCEPT ![u] = h2]
        /\ message' = IF s.stage = "error" \/ caught
                      THEN [message EXCEPT ![u] = s.text]
                      ELSE message
        /\ outbox' = IF emitting /\ socketSet[u]
                     THEN EmitAll(link[u],
                            <<[type |-> "sendMessage",
                               data |-> [text |-> s.text, roomId |-> s.roomId,
                                         senderId |-> u, tag |-> k]]>>)
                     ELSE outbox
        /\ sends' = [sends EXCEPT ![k].stage = "done",
                                  ![k].confirmed = (s.stage = "ok"),
                                  ![k].failed = (s.stage = "error" \/ caught),
                                  ![k].emitted = (emitting /\ socketSet[u])]
        /\ UNCHANGED relayVars
        /\ UNCHANGED <<clock, store, fetches, selectedChatId, currentRoomId, socketSet,
                       isSocketConnected, link, recvLog, loaded,
                   lastViewedTimestamps, warnings>>

\* the query of the i-th fetchHistory of u in flight is answered
StoreQuery(u, i) ==
    /\ i \in 1..Len(fetches[u])
    /\ fetches[u][i].stage = "query"
    /\ fetches' = [fetches EXCEPT ![u][i].stage = "data",
                                  ![u][i].rows = RoomRows(fetches[u][i].roomId)]
    /\ UNCHANGED relayVars
    /\ UNCHANGED <<outbox, clock, store, sends, message, chatHistory, selectedChatId,
                   currentRoomId, socketSet, isSocketConnected, link, recvLog, loaded,
                   lastViewedTimestamps, warnings>>

\* the query fails: an error result, or a rejected promise
QueryFails(u, i, how) ==
    /\ i \in 1..Len(fetches[u])
    /\ fetches[u][i].stage = "query"
    /\ fetches' = [fetches EXCEPT ![u][i].stage = how]
    /\ UNCHANGED relayVars
    /\ UNCHANGED <<outbox, clock, store, sends, message, chatHistory, selectedChatId,
                   currentRoomId, socketSet, isSocketConnected, link, recvLog, loaded,
                   lastViewedTimestamps, warnings>>

\* fetchHistory after the await
FetchResume(u, i) ==
    /\ i \in 1..Len(fetches[u])
    /\ fetches[u][i].stage # "query"
    /\ chatHistory' = [chatHistory EXCEPT ![u] =
                          IF fetches[u][i].stage = "data"
                          THEN FormatHistory(u, fetches[u][i].rows)
                          ELSE <<>>]
    /\ loaded' = [loaded EXCEPT ![u] =
                     IF fetches[u][i].stage = "data" THEN fetches[u][i].roomId ELSE Nil]
    /\ fetches' = [fetches EXCEPT ![u] = RemoveAt(@, i)]
    /\ UNCHANGED relayVars
    /\ UNCHANGED <<outbox, clock, store, sends, message, selectedChatId, currentRoomId,
                   socketSet, isSocketConnected, link, recvLog,
                   lastViewedTimestamps, warnings>>

\* an onFocus that marks every room as viewed
FocusEveryRoom(u) ==
    /\ selectedChatId[u] # Nil
    /\ isSocketConnected[u]
    /\ lastViewedTimestamps' =
            IF currentRoomId[u] # Nil
            THEN [lastViewedTimestamps EXCEPT ![u] = [r \in AllRooms |-> clock]]
            ELSE lastViewedTimestamps
    /\ UNCHANGED relayVars
    /\ UNCHANGED <<outbox, clock, store, sends, fetches, message, chatHistory, selectedChatId,
                   currentRoomId, socketSet, isSocketConnected, link, recvLog, loaded, warnings>>

\* onFocus of the input, which is rendered once a match is selected and is
\* disabled while isSocketConnected is false
Focus(u) ==
    /\ selectedChatId[u] # Nil
    /\ isSocketConnected[u]
    /\ lastViewedTimestamps' =
            IF currentRoomId[u] # Nil
            THEN [lastViewedTimestamps EXCEPT ![u][currentRoomId[u]] = clock]
            ELSE lastViewedTimestamps
    /\ UNCHANGED relayVars
    /\ UNCHANGED <<outbox, clock, store, sends, fetches, message, chatHistory, selectedChatId,
                   currentRoomId, socketSet, isSocketConnected, link, recvLog, loaded, warnings>>

\* time passes
Tick ==
    /\ clock < MaxClock
    /\ clock' = clock + 1
    /\ UNCHANGED relayVars
    /\ UNCHANGED <<outbox, store, sends, fetches, message, chatHistory, selectedChatId,
                   currentRoomId, socketSet, isSocketConnected, link, recvLog, loaded,
                   lastViewedTimestamps, warnings>>

\* ------------------------------------------------------- any other client
\* the events a client other than the chat page may send: well-formed ones
\* and ones with an empty user id, no payload, or a payload without text,
\* roomId or senderId
RawEvents ==
    {[type |-> "registerUser", userId |-> A],
     [type |-> "registerUser", userId |-> Nil],
     [type |-> "joinRoom", roomId |-> createRoomId(A, B)],
     [type |-> "sendMessage", data |-> Undefined]}
    \cup {[type |-> "sendMessage",
           data |-> [text |-> t, roomId |-> r, senderId |-> u, tag |-> 0]] :
             <<t, r, u>> \in {<<"hi", createRoomId(A, B), A>>,
                              <<NoText, createRoomId(A, B), A>>,
                              <<"hi", Nil, A>>,
                              <<"hi", createRoomId(A, B), Nil>>}}

\* a connection that is not the socket of a chat page emits an event
RawEmit(c, ev) ==
    /\ connState[c] = "open"
    /\ \A u \in Clients : link[u] # c
    /\ outbox[c] = <<>>
    /\ IF ev.type = "sendMessage"
       THEN /\ Len(sent) < MaxEvents
            /\ \A d \in Conns : \A i \in 1..Len(outbox[d]) :
                    outbox[d][i].type # "sendMessage"
       ELSE TRUE
    /\ outbox' = [outbox EXCEPT ![c] = <<ev>>]
    /\ UNCHANGED relayVars
    /\ UNCHANGED <<clock, store, sends, fetches, message, chatHistory, selectedChatId,
                   currentRoomId, socketSet, isSocketConnected, link, recvLog, loaded,
                   lastViewedTimestamps, warnings>>

\* ------------------------------------------------------------------ Spec
Init == RelayInit

\* Two pages, A's and B's, chatting with each other over connections that
\* stay up; A's user writes.
Next ==
    \/ \E u \in Clients : Connect(u)
    \/ \E c \in Conns : ServerRecv(c)
    \/ \E u \in Clients : ClientRecv(u)
    \/ SelectChat(A, B)
    \/ SelectChat(B, A)
    \/ \E u \in Senders : Len(sends) < MaxSubmits /\ Type(u, TextOf(Len(sends) + 1))
    \/ \E u \in Senders : Submit(u)
    \/ \E k \in 1..Len(sends) : StoreInsert(k)
    \/ \E k \in 1..Len(sends) : \E how \in {"error", "throw"} : InsertFails(k, how)
    \/ \E k \in 1..Len(sends) : SendResume(k)
    \/ \E u \in Clients : \E i \in 1..Len(fetches[u]) : StoreQuery(u, i)
    \/ \E u \in Clients : \E i \in 1..Len(fetches[u]) : FetchResume(u, i)

Spec == Init /\ [][Next]_vars

\* One page, A's, chatting with B, over connections that may break and
\* reconnect, and a store whose reads and writes may fail.
SoloNext ==
    \/ Connect(A)
    \/ ClientDisconnect(A)
    \/ \E c \in Conns : ServerDisconnect(c)
    \/ \E c \in Conns : ServerRecv(c)
    \/ SelectChat(A, B)
    \/ Len(sends) < MaxSubmits /\ Type(A, TextOf(Len(sends) + 1))
    \/ Submit(A)
    \/ \E k \in 1..Len(sends) : StoreInsert(k)
    \/ \E k \in 1..Len(sends) : \E how \in {"error", "throw"} : InsertFails(k, how)
    \/ \E k \in 1..Len(sends) : SendResume(k)
    \/ \E i \in 1..Len(fetches[A]) : StoreQuery(A, i)
    \/ \E i \in 1..Len(fetches[A]) : \E how \in {"error", "throw"} : QueryFails(A, i, how)
    \/ \E i \in 1..Len(fetches[A]) : FetchResume(A, i)

SpecSolo == Init /\ [][SoloNext]_vars

\* createRoomId on user ids of any form: two pages, each with a user id and
\* a selected match drawn from Ids; the room effect derives the room id.
IdInit ==
    /\ connState = [c \in Conns |-> "new"]
    /\ userSocketMap = <<>>
    /\ rooms = [c \in Conns |-> {}]
    /\ inbox = [c \in Conns |-> <<>>]
    /\ sent = <<>>
    /\ lastReg = [u \in Users |-> 0]
    /\ prevReg = [u \in Users |-> 0]
    /\ outbox = [c \in Conns |-> <<>>]
    /\ clock = 1
    /\ store = <<>>
    /\ sends = <<>>
    /\ fetches = [u \in Clients |-> <<>>]
    /\ message = [u \in Clients |-> ""]
    /\ chatHistory = [u \in Clients |-> <<>>]
    /\ socketSet = [u \in Clients |-> TRUE]
    /\ isSocketConnected = [u \in Clients |-> FALSE]
    /\ link = [u \in Clients |-> 0]
    /\ recvLog = [u \in Clients |-> <<>>]
    /\ loaded = [u \in Clients |-> Nil]
    /\ lastViewedTimestamps = [u \in Clients |-> [r \in AllRooms |-> 0]]
    /\ warnings = [u \in Clients |-> <<>>]
    /\ \E p \in Ids, m \in Ids, q \in Ids, n \in Ids :
            selectedChatId = [u \in Ids |-> IF u = p THEN m ELSE IF u = q THEN n ELSE Nil]
    /\ currentRoomId = [u \in Ids |-> Nil]

\* targetRoomId = createRoomId(currentUserId, selectedChatId), setCurrentRoomId
DeriveRoom(u) ==
    /\ selectedChatId[u] # Nil
    /\ currentRoomId[u] = Nil
    /\ currentRoomId' = [currentRoomId EXCEPT ![u] = createRoomId(u, selectedChatId[u])]
    /\ UNCHANGED relayVars
    /\ UNCHANGED <<outbox, clock, store, sends, fetches, message, chatHistory, selectedChatId,
                   socketSet, isSocketConnected, link, recvLog, loaded,
                   lastViewedTimestamps, warnings>>

IdNext == \E u \in Ids : DeriveRoom(u)

SpecRoomId == IdInit /\ [][IdNext]_vars

\* firstUnreadIndex on any sequence: the entries a chat page can hold, own
\* and peer messages of the current and of another room, loaded from the
\* store (created_at) or received live (client timestamp)
HistEntries ==
    {[id |-> IF stored THEN DbId(1) ELSE TempId(IF who = "me" THEN A ELSE B, t),
      text |-> "hi",
      sender |-> who,
      roomId |-> r,
      timestamp |-> t,
      senderId |-> IF who = "me" THEN A ELSE B,
      created_at |-> IF stored THEN [t |-> t, n |-> 1] ELSE NoTime,
      tag |-> 0] :
        who \in {"me", "other"}, stored \in BOOLEAN, t \in 1..MaxTime,
        r \in {createRoomId(A, B), createRoomId(A, C)}}

\* The shape of a sequence the page builds: first the rows of a history
\* load, in ascending created_at, then the entries appended since, which are
\* peer messages received live and own messages, confirmed or not; the
\* client timestamps of the appended entries do not decrease.  The clock of
\* the store and the clock of the client are not synchronised.
HistoryShape(h) ==
    \E k \in 0..Len(h) :
        /\ \A i \in 1..k : h[i].created_at # NoTime
        /\ \A i \in 1..k : \A j \in 1..k : i < j => h[i].created_at.t <= h[j].created_at.t
        /\ \A i \in (k + 1)..Len(h) : h[i].sender = "other" => h[i].created_at = NoTime
        /\ \A i \in (k + 1)..Len(h) : \A j \in (k + 1)..Len(h) :
                (i < j /\ h[i].created_at = NoTime /\ h[j].created_at = NoTime)
                    => h[i].timestamp <= h[j].timestamp

\* A's page is connected and in the room of A and B, with any sequence
UnreadInit ==
    /\ connState = [c \in Conns |-> IF c = 1 THEN "open" ELSE "new"]
    /\ userSocketMap = <<[userId |-> A, socketId |-> SocketId(1)]>>
    /\ rooms = [c \in Conns |-> IF c = 1 THEN {SocketId(1), createRoomId(A, B)} ELSE {}]
    /\ inbox = [c \in Conns |-> <<>>]
    /\ sent = <<>>
    /\ lastReg = [u \in Users |-> IF u = A THEN 1 ELSE 0]
    /\ prevReg = [u \in Users |-> 0]
    /\ outbox = [c \in Conns |-> <<>>]
    /\ clock = 1
    /\ store = <<>>
    /\ sends = <<>>
    /\ fetches = [u \in Clients |-> <<>>]
    /\ message = [u \in Clients |-> ""]
    /\ \E n \in 0..MaxHist : \E h \in [1..n -> HistEntries] :
            /\ HistoryShape(h)
            /\ chatHistory = [u \in Clients |-> IF u = A THEN h ELSE <<>>]
    /\ selectedChatId = [u \in Clients |-> IF u = A THEN B ELSE Nil]
    /\ currentRoomId = [u \in Clients |-> IF u = A THEN createRoomId(A, B) ELSE Nil]
    /\ socketSet = [u \in Clients |-> TRUE]
    /\ isSocketConnected = [u \in Clients |-> u = A]
    /\ link = [u \in Clients |-> IF u = A THEN 1 ELSE 0]
    /\ recvLog = [u \in Clients |-> <<>>]
    /\ loaded = [u \in Clients |-> IF u = A THEN createRoomId(A, B) ELSE Nil]
    /\ lastViewedTimestamps = [u \in Clients |-> [r \in AllRooms |-> 0]]
    /\ warnings = [u \in Clients |-> <<>>]

UnreadNext ==
    \/ Focus(A)
    \/ Tick

SpecUnread == UnreadInit /\ [][UnreadNext]_vars

\* The relay with clients that send any events, malformed ones included.
MalformedNext ==
    \/ RelayConnect
    \/ \E c \in Conns : \E ev \in RawEvents : RawEmit(c, ev)
    \/ \E c \in Conns : ServerRecv(c)

SpecMalformed == Init /\ [][MalformedNext]_vars

\* Two pages, A's and B's, chatting with each other over connections that
\* stay up, with a store that answers every request.
LiveNext ==
    \/ \E u \in Clients : Connect(u)
    \/ \E c \in Conns : ServerRecv(c)
    \/ \E u \in Clients : ClientRecv(u)
    \/ SelectChat(A, B)
    \/ SelectChat(B, A)
    \/ Len(sends) < MaxLiveSubmits /\ Type(A, TextOf(Len(sends) + 1))
    \/ Submit(A)
    \/ \E k \in 1..Len(sends) : StoreInsert(k)
    \/ \E k \in 1..Len(sends) : SendResume(k)
    \/ \E u \in Clients : \E i \in 1..Len(fetches[u]) : StoreQuery(u, i)
    \/ \E u \in Clients : \E i \in 1..Len(fetches[u]) : FetchResume(u, i)

\* the transport delivers every event, the store answers every request and
\* the event loop runs every handler and continuation that is due
LiveFairness ==
    /\ \A c \in Conns : WF_vars(ServerRecv(c))
    /\ \A u \in Clients : WF_vars(ClientRecv(u))
    /\ \A k \in 1..MaxLiveSubmits : WF_vars(k <= Len(sends) /\ StoreInsert(k))
    /\ \A k \in 1..MaxLiveSubmits : WF_vars(k <= Len(sends) /\ SendResume(k))
    /\ \A u \in Clients : WF_vars(\E i \in 1..Len(fetches[u]) : StoreQuery(u, i))
    /\ \A u \in Clients : WF_vars(\E i \in 1..Len(fetches[u]) : FetchResume(u, i))

SpecLive == Init /\ [][LiveNext]_vars /\ LiveFairness

\* every message submitted so far has been handled to the end and nothing
\* is on its way to the relay
AllRelayed ==
    /\ sends # <<>>
    /\ \A k \in 1..Len(sends) : sends[k].stage = "done"
    /\ \A c \in Conns : outbox[c] = <<>>

\* A writes to B while B's page is closed; B opens the page once A's
\* messages have been persisted and relayed.  B's history query may fail.
LateNext ==
    \/ Connect(A)
    \/ AllRelayed /\ Connect(B)
    \/ \E c \in Conns : ServerRecv(c)
    \/ SelectChat(A, B)
    \/ SelectChat(B, A)
    \/ link[B] = 0 /\ Len(sends) < MaxSubmits /\ Type(A, TextOf(Len(sends) + 1))
    \/ link[B] = 0 /\ Submit(A)
    \/ \E k \in 1..Len(sends) : StoreInsert(k)
    \/ \E k \in 1..Len(sends) : SendResume(k)
    \/ \E u \in Clients : \E i \in 1..Len(fetches[u]) : StoreQuery(u, i)
    \/ \E i \in 1..Len(fetches[B]) : \E how \in {"error", "throw"} : QueryFails(B, i, how)
    \/ \E u \in Clients : \E i \in 1..Len(fetches[u]) : FetchResume(u, i)

SpecLate == Init /\ [][LateNext]_vars

\* Two pages over connections that stay up: A goes through its matches, B
\* chats with A and writes.
SwitchNext ==
    \/ \E u \in Clients : Connect(u)
    \/ \E c \in Conns : ServerRecv(c)
    \/ \E u \in Clients : ClientRecv(u)
    \/ \E matchId \in Peers(A) : SelectChat(A, matchId)
    \/ SelectChat(B, A)
    \/ Len(sends) < MaxSwitchSubmits /\ Type(B, TextOf(Len(sends) + 1))
    \/ Submit(B)
    \/ \E k \in 1..Len(sends) : StoreInsert(k)
    \/ \E k \in 1..Len(sends) : SendResume(k)
    \/ \E u \in Clients : \E i \in 1..Len(fetches[u]) : StoreQuery(u, i)
    \/ \E u \in Clients : \E i \in 1..Len(fetches[u]) : FetchResume(u, i)

SpecSwitch == Init /\ [][SwitchNext]_vars

\* what a second tab of user A, or one of B, sends in the room of A and B
TabEvents ==
    {[type |-> "registerUser", userId |-> A],
     [type |-> "joinRoom", roomId |-> createRoomId(A, B)]}
    \cup {[type |-> "sendMessage",
           data |-> [text |-> "hi", roomId |-> createRoomId(A, B), senderId |-> u,
                     tag |-> 0]] : u \in Clients}

\* A's page is in the room of A and B
InRoom == link[A] # 0 /\ createRoomId(A, B) \in rooms[link[A]]

\* A's page chats with B while a second tab, on a connection of its own,
\* writes into the same room once A's page is in it.
EchoNext ==
    \/ Connect(A)
    \/ RelayConnect
    \/ SelectChat(A, B)
    \/ \E c \in Conns : \E ev \in TabEvents :
            (ev.type = "sendMessage" => InRoom) /\ RawEmit(c, ev)
    \/ \E c \in Conns : ServerRecv(c)
    \/ ClientRecv(A)
    \/ \E i \in 1..Len(fetches[A]) : StoreQuery(A, i)
    \/ \E i \in 1..Len(fetches[A]) : FetchResume(A, i)

SpecEcho == Init /\ [][EchoNext]_vars

\* Two pages over connections that stay up: A goes through its matches, B
\* chats with A and writes once A's page is in their room.
RoomNext ==
    \/ \E u \in Clients : Connect(u)
    \/ \E c \in Conns : ServerRecv(c)
    \/ \E u \in Clients : ClientRecv(u)
    \/ \E matchId \in Peers(A) : SelectChat(A, matchId)
    \/ SelectChat(B, A)
    \/ Len(sends) < MaxSwitchSubmits /\ Type(B, TextOf(Len(sends) + 1))
    \/ InRoom /\ Submit(B)
    \/ \E k \in 1..Len(sends) : StoreInsert(k)
    \/ \E k \in 1..Len(sends) : SendResume(k)
    \/ \E u \in Clients : \E i \in 1..Len(fetches[u]) : StoreQuery(u, i)
    \/ \E u \in Clients : \E i \in 1..Len(fetches[u]) : FetchResume(u, i)

SpecRoom == Init /\ [][RoomNext]_vars

\* the joinRoom and leaveRoom events of clients that join and leave the
\* rooms of A in any order
MemberEvents ==
    {[type |-> t, roomId |-> r] :
        t \in {"joinRoom", "leaveRoom"}, r \in {createRoomId(A, B), createRoomId(A, C)}}

\* The relay with clients that join and leave rooms in any order.
MemberNext ==
    \/ RelayConnect
    \/ \E c \in Conns : \E ev \in MemberEvents : RawEmit(c, ev)
    \/ \E c \in Conns : ServerRecv(c)

SpecMember == Init /\ [][MemberNext]_vars

\* the events of clients that register, join, leave and write at the same
\* time
ConcurrentEvents ==
    {[type |-> "registerUser", userId |-> u] : u \in Users}
    \cup {[type |-> t, roomId |-> createRoomId(A, B)] : t \in {"joinRoom", "leaveRoom"}}
    \cup {[type |-> "sendMessage",
           data |-> [text |-> "hi", roomId |-> createRoomId(A, B), senderId |-> A,
                     tag |-> 0]]}

\* The relay with connections whose events and disconnects arrive in any
\* order.
ConcurrentNext ==
    \/ RelayConnect
    \/ \E c \in Conns : \E ev \in ConcurrentEvents : RawEmit(c, ev)
    \/ \E c \in Conns : ServerRecv(c)
    \/ \E c \in Conns : ServerDisconnect(c)

SpecConcurrent == Init /\ [][ConcurrentNext]_vars

\* One page, A's, over a connection that stays up: A goes through its
\* matches, focuses the input, writes, and time passes.
FocusNext ==
    \/ Connect(A)
    \/ \E c \in Conns : ServerRecv(c)
    \/ \E matchId \in Peers(A) : SelectChat(A, matchId)
    \/ Focus(A)
    \/ Tick
    \/ Len(sends) < MaxSwitchSubmits /\ Type(A, TextOf(Len(sends) + 1))
    \/ Len(sends) < MaxSwitchSubmits /\ Submit(A)
    \/ \E k \in 1..Len(sends) : StoreInsert(k)
    \/ \E k \in 1..Len(sends) : SendResume(k)
    \/ \E i \in 1..Len(fetches[A]) : StoreQuery(A, i)
    \/ \E i \in 1..Len(fetches[A]) : FetchResume(A, i)

SpecFocus == Init /\ [][FocusNext]_vars

\* One page, A's, whose user types blank and non-blank texts and whose form
\* is submitted in any state: before the socket connects, before a match is
\* selected, with an empty or a blank input, after the socket has dropped.
BlankTexts == {" ", " hi"}

BlankNext ==
    \/ Connect(A)
    \/ ClientDisconnect(A)
    \/ \E c \in Conns : ServerRecv(c)
    \/ SelectChat(A, B)
    \/ \E text \in BlankTexts : Len(sends) < MaxSwitchSubmits /\ Type(A, text)
    \/ handleSend(A)
    \/ \E k \in 1..Len(sends) : StoreInsert(k)
    \/ \E k \in 1..Len(sends) : SendResume(k)
    \/ \E i \in 1..Len(fetches[A]) : StoreQuery(A, i)
    \/ \E i \in 1..Len(fetches[A]) : FetchResume(A, i)

SpecBlank == Init /\ [][BlankNext]_vars

\* the events of clients that join and leave the room of A and B and write
\* to that room or to the room named by the id of the first socket; none
\* of them joins a room named by a socket id
DirectEvents ==
    {[type |-> t, roomId |-> createRoomId(A, B)] : t \in {"joinRoom", "leaveRoom"}}
    \cup {[type |-> "sendMessage",
           data |-> [text |-> "hi", roomId |-> r, senderId |-> B, tag |-> 0]] :
                r \in {createRoomId(A, B), SocketId(1)}}

\* The relay with clients that write to rooms of any name.
DirectNext ==
    \/ RelayConnect
    \/ \E c \in Conns : \E ev \in DirectEvents : RawEmit(c, ev)
    \/ \E c \in Conns : ServerRecv(c)

SpecDirect == Init /\ [][DirectNext]_vars

\* ------------------------------------------------------ presence registry
\* C2: for every user u, as long as the connection that most recently
\* registered u has not disconnected, the presence map maps u to that
\* connection; the disconnect of an older connection that had registered u
\* neither removes nor changes that entry.
C2_LatestRegistrationKept ==
    \A u \in Users :
        (lastReg[u] # 0 /\ connState[lastReg[u]] = "open")
            => /\ MapHas(userSocketMap, u)
               /\ MapGet(userSocketMap, u) = SocketId(lastReg[u])

\* an older connection that registered u has disconnected, the newer one is
\* still connected and holds the entry
C2_Witness ==
    \E u \in Users :
        /\ prevReg[u] # 0 /\ connState[prevReg[u]] = "closed"
        /\ lastReg[u] # 0 /\ connState[lastReg[u]] = "open"
        /\ MapHas(userSocketMap, u)
        /\ MapGet(userSocketMap, u) = SocketId(lastReg[u])

\* ------------------------------------------------------------- dispatch
\* C4: a sendMessage event from connection c is never delivered as
\* receiveMessage to c itself, whether or not c is in the target room.
C4_NoEcho ==
    \A c \in Conns : \A i \in 1..Len(inbox[c]) : inbox[c][i].from # c

\* a relayed message whose sender is a member of the target room
C4_Witness ==
    \E k \in 1..Len(sent) :
        /\ sent[k].roomId \in rooms[sent[k].from]
        /\ \E d \in Conns : \E i \in 1..Len(inbox[d]) : inbox[d][i].ev = sent[k].ev

\* C5: when connection c sends sendMessage for room r, every connection
\* other than c that is in r at dispatch time receives one receiveMessage
\* with the same text, roomId and senderId.
C5_MembersReceive ==
    [][Len(sent') = Len(sent) + 1 =>
        LET e == sent'[Len(sent')] IN
        \A d \in Conns \ {e.from} :
            (connState[d] = "open" /\ e.roomId \in rooms[d]) =>
                /\ Len(inbox'[d]) = Len(inbox[d]) + 1
                /\ inbox'[d][Len(inbox'[d])].text = e.text
                /\ inbox'[d][Len(inbox'[d])].roomId = e.roomId
                /\ inbox'[d][Len(inbox'[d])].senderId = e.senderId
                /\ inbox'[d][Len(inbox'[d])].ev = e.ev]_vars

\* a member other than the sender has received the event
C5_Witness ==
    \E k \in 1..Len(sent) : \E d \in Conns \ {sent[k].from} :
        \E i \in 1..Len(inbox[d]) :
            /\ inbox[d][i].ev = sent[k].ev
            /\ inbox[d][i].text = sent[k].text
            /\ inbox[d][i].roomId = sent[k].roomId
            /\ inbox[d][i].senderId = sent[k].senderId

AtMostOncePerConnection ==
    \A d \in Conns : \A i, j \in 1..Len(inbox[d]) :
        inbox[d][i].ev = inbox[d][j].ev => i = j

\* C6: a sendMessage event produces at most one receiveMessage per
\* connection, and only in the step that dispatches it, to connections that
\* are connected and in the room at that moment; nothing is delivered later.
C6_AtMostOnceNoQueue ==
    [][/\ AtMostOncePerConnection'
       /\ \A d \in Conns :
            inbox'[d] # inbox[d] =>
                /\ Len(sent') = Len(sent) + 1
                /\ connState[d] = "open"
                /\ sent'[Len(sent')].roomId \in rooms[d]
                /\ inbox'[d] = Append(inbox[d], sent'[Len(sent')])]_vars

\* a connection that is in the room now, but was not when the event was
\* dispatched, has not received it
C6_Witness ==
    \E k \in 1..Len(sent) : \E d \in Conns \ {sent[k].from} :
        /\ connState[d] = "open"
        /\ sent[k].roomId \in rooms[d]
        /\ \A i \in 1..Len(inbox[d]) : inbox[d][i].ev # sent[k].ev

\* ------------------------------------------------------- the chat page
\* the row of the store that holds submit tag, 0 if there is none
RowOf(tag) ==
    IF \E r \in 1..Len(store) : store[r].tag = tag
    THEN CHOOSE r \in 1..Len(store) : store[r].tag = tag
    ELSE 0

\* the submits shown by the visible sequence of u, in display order
VisibleTags(u) ==
    LET f == filteredChatHistory(u) IN [i \in 1..Len(f) |-> f[i].tag]

\* the store holds a row with the fields of payload m
Persisted(m) ==
    \E r \in 1..Len(store) :
        /\ store[r].tag = m.tag
        /\ store[r].message_text = m.text
        /\ store[r].room_id = m.roomId
        /\ store[r].sender_id = m.senderId

\* C1: once the history load of the current room has completed and the
\* relay of a further message of the peer has been handled, in whichever
\* order, the visible sequence shows that message exactly once, and shows
\* the messages without duplicate in the order of the store.
C1_HistoryThenRelay ==
    \A u \in Clients :
        (/\ recvLog[u] # <<>>
         /\ fetches[u] = <<>>
         /\ currentRoomId[u] # Nil
         /\ loaded[u] = currentRoomId[u])
        => LET v == VisibleTags(u)
           IN  /\ \A i \in 1..Len(recvLog[u]) :
                    Cardinality({j \in 1..Len(v) : v[j] = recvLog[u][i]}) = 1
               /\ \A i, j \in 1..Len(v) : i < j => RowOf(v[i]) < RowOf(v[j])

\* C3: the page emits sendMessage for a message only after the store has
\* acknowledged its write: every sendMessage event in flight or handled by
\* the relay, and every receiveMessage delivered to a peer, carries a
\* message that is in the store.
C3_EmitAfterPersist ==
    /\ \A c \in Conns : \A i \in 1..Len(outbox[c]) :
            outbox[c][i].type = "sendMessage" => Persisted(outbox[c][i].data)
    /\ \A k \in 1..Len(sent) : Persisted(sent[k])
    /\ \A c \in Conns : \A i \in 1..Len(inbox[c]) : Persisted(inbox[c][i])
    /\ \A k \in 1..Len(sends) : sends[k].emitted => sends[k].row # 0

\* the peer has handled the receiveMessage of a message of A
C3_Witness ==
    /\ recvLog[B] # <<>>
    /\ \E i \in 1..Len(chatHistory[B]) :
            chatHistory[B][i].sender = "other" /\ RowOf(chatHistory[B][i].tag) # 0

\* C7: when the write of a message fails (error result or rejected
\* promise), handleSend leaves no entry of that message in the sequence,
\* puts its text back into the input and emits no sendMessage for it.
C7_FailedWriteReverted ==
    [][\A k \in 1..Len(sends) :
        (sends[k].stage \in {"error", "throw"} /\ sends'[k].stage = "done") =>
            /\ \A i \in 1..Len(chatHistory'[sends[k].u]) :
                    chatHistory'[sends[k].u][i].tag # k
            /\ message'[sends[k].u] = sends[k].text
            /\ ~sends'[k].emitted
            /\ outbox' = outbox]_vars

\* C8: when the write succeeds, the confirmation leaves the length of the
\* sequence and the order of its entries unchanged, and the entry of the
\* message carries the id and created_at of its row at the same index.
C8_ConfirmedInPlace ==
    [][\A k \in 1..Len(sends) :
        (sends[k].stage = "ok" /\ sends'[k].stage = "done") =>
            LET h == chatHistory[sends[k].u]
                hh == chatHistory'[sends[k].u]
                row == store[sends[k].row]
            IN  /\ Len(hh) = Len(h)
                /\ \A i \in 1..Len(h) : hh[i].tag = h[i].tag
                /\ \A i \in 1..Len(h) :
                        h[i].tag = k =>
                            /\ hh[i].id = row.id
                            /\ hh[i].created_at = row.created_at
                            /\ hh[i].timestamp = GetTime(row.created_at)]_vars

\* C9: a message is Pending from its submit (entry appended, input
\* cleared), becomes exactly one of Confirmed and Failed when handleSend
\* resumes, and does not change afterwards.
C9_Lifecycle ==
    [][\A k \in 1..Len(sends') :
        /\ k > Len(sends) =>
                LET hh == chatHistory'[sends'[k].u]
                IN  /\ sends'[k].stage = "insert"
                    /\ Len(hh) = Len(chatHistory[sends'[k].u]) + 1
                    /\ hh[Len(hh)].tag = k
                    /\ hh[Len(hh)].id = sends'[k].tempId
                    /\ message'[sends'[k].u] = ""
        /\ (k <= Len(sends) /\ sends[k].stage # "done" /\ sends'[k].stage = "done") =>
                (sends'[k].confirmed # sends'[k].failed)
        /\ (k <= Len(sends) /\ sends[k].stage = "done") => sends'[k] = sends[k]]_vars

\* C10: a page receives the messages of a room in the order in which the
\* store persisted them.
C10_RelayInPersistOrder ==
    \A u \in Clients : \A i, j \in 1..Len(recvLog[u]) :
        i < j => RowOf(recvLog[u][i]) < RowOf(recvLog[u][j])

\* ----------------------------------------------------------- end to end
\* both pages are connected and the relay has them in the room of A and B
BothJoined ==
    \A u \in Clients : link[u] # 0 /\ createRoomId(A, B) \in rooms[link[u]]

\* A's sequence shows submit k under the id the store gave its row
ConfirmedShown(k) ==
    /\ k <= Len(sends)
    /\ sends[k].row # 0
    /\ \E i \in 1..Len(chatHistory[A]) :
            /\ chatHistory[A][i].tag = k
            /\ chatHistory[A][i].id = store[sends[k].row].id

\* B's receiveMessageHandler has appended submit k
ReceivedByPeer(k) == \E i \in 1..Len(recvLog[B]) : recvLog[B][i] = k

\* C11: with A and B joined to their room and the store and the transport
\* responsive, a message that A submits is in A's sequence at once as
\* Pending, eventually is shown there under its store-assigned id, and
\* eventually B's handler receives it and appends it.
C11_EndToEnd ==
    /\ [][Len(sends') = Len(sends) + 1 =>
            LET hh == chatHistory'[A]
            IN  /\ Len(hh) = Len(chatHistory[A]) + 1
                /\ hh[Len(hh)].tag = Len(sends')
                /\ hh[Len(hh)].text = sends'[Len(sends')].text
                /\ hh[Len(hh)].id = sends'[Len(sends')].tempId]_vars
    /\ \A k \in 1..MaxLiveSubmits :
            (k <= Len(sends) /\ sends[k].stage = "insert" /\ BothJoined)
                ~> ConfirmedShown(k)
    /\ \A k \in 1..MaxLiveSubmits :
            (k <= Len(sends) /\ sends[k].stage = "insert" /\ BothJoined)
                ~> ReceivedByPeer(k)

\* C12: B was not connected when A's messages were persisted and relayed;
\* once B has connected, joined the room and its history query has
\* completed successfully, B's sequence contains each of those messages.
C12_MissedMessageFetched ==
    (/\ link[B] # 0
     /\ currentRoomId[B] = createRoomId(A, B)
     /\ fetches[B] = <<>>
     /\ loaded[B] = createRoomId(A, B))
    => \A k \in 1..Len(sent) :
          \E i \in 1..Len(chatHistory[B]) :
              /\ chatHistory[B][i].tag = sent[k].tag
              /\ chatHistory[B][i].text = sent[k].text
              /\ chatHistory[B][i].senderId = sent[k].senderId
              /\ chatHistory[B][i].roomId = sent[k].roomId

\* B has loaded the history of the room after missing a relayed message
C12_Witness ==
    /\ sent # <<>>
    /\ recvLog[B] = <<>>
    /\ link[B] # 0
    /\ fetches[B] = <<>>
    /\ loaded[B] = createRoomId(A, B)
    /\ \E i \in 1..Len(chatHistory[B]) : chatHistory[B][i].tag = sent[1].tag

\* ------------------------------------------------------------ disconnect
\* C13: when a connection disconnects, no presence entry refers to it any
\* more and it is in no room; afterwards it stays in no room and no
\* receiveMessage is delivered to it.
C13_DisconnectCleansUp ==
    [][\A c \in Conns :
        /\ (connState[c] = "open" /\ connState'[c] = "closed") =>
                /\ \A i \in 1..Len(userSocketMap') :
                        userSocketMap'[i].socketId # SocketId(c)
                /\ rooms'[c] = {}
        /\ connState[c] = "closed" =>
                /\ rooms'[c] = {}
                /\ inbox'[c] = inbox[c]]_vars

\* ------------------------------------------------------- room membership
\* the relay handles an event of the given type from connection c
HandlesEvent(c, type) ==
    /\ connState[c] = "open"
    /\ connState'[c] = "open"
    /\ outbox[c] # <<>>
    /\ outbox'[c] = Tail(outbox[c])
    /\ Head(outbox[c]).type = type

\* C14: once the relay has handled leaveRoom(r) of connection c, c is not a
\* member of r; c becomes a member of r again only by a joinRoom(r) of its
\* own, and a receiveMessage for r is delivered to c only while c is a
\* member of r.
C14_LeftRoomIsLeft ==
    [][\A c \in Conns :
        /\ HandlesEvent(c, "leaveRoom") => Head(outbox[c]).roomId \notin rooms'[c]
        /\ \A r \in rooms'[c] \ rooms[c] :
                \/ connState[c] = "new" /\ r = SocketId(c)
                \/ HandlesEvent(c, "joinRoom") /\ Head(outbox[c]).roomId = r
        /\ Len(inbox'[c]) > Len(inbox[c]) =>
                inbox'[c][Len(inbox'[c])].roomId \in rooms[c]]_vars

\* A joined the room of A and B and left it again, and a message relayed to
\* that room afterwards has not reached A
C14_Witness ==
    /\ link[A] # 0
    /\ loaded[A] = createRoomId(A, B)
    /\ currentRoomId[A] = createRoomId(A, C)
    /\ outbox[link[A]] = <<>>
    /\ createRoomId(A, B) \notin rooms[link[A]]
    /\ \E k \in 1..Len(sent) : sent[k].roomId = createRoomId(A, B)
    /\ inbox[link[A]] = <<>>
    /\ recvLog[A] = <<>>

Malformed(ev) ==
    \/ ev.type = "registerUser" /\ ev.userId = Nil
    \/ /\ ev.type = "sendMessage"
       /\ \/ ev.data = Undefined
          \/ ev.data.text = NoText
          \/ ev.data.roomId = Nil
          \/ ev.data.senderId = Nil

\* C16: when the relay handles a malformed event, the presence map and the
\* room memberships stay as they are, no receiveMessage is emitted, and
\* every connection, the offending one included, stays connected.
C16_MalformedDiscarded ==
    [][\A c \in Conns :
        (/\ connState[c] = "open"
         /\ outbox[c] # <<>>
         /\ outbox'[c] = Tail(outbox[c])
         /\ Malformed(Head(outbox[c])))
        => /\ connState' = connState
           /\ userSocketMap' = userSocketMap
           /\ rooms' = rooms
           /\ inbox' = inbox]_vars

\* ------------------------------------------------------------ createRoomId
\* the unordered pair of the page of u: its user and the selected match
PairOf(u) == {u, selectedChatId[u]}

\* C17: createRoomId is commutative: two users who select each other get
\* the same room id, createRoomId(a, b) = createRoomId(b, a).
C17_Commutative ==
    \A u \in Ids : \A v \in Ids :
        (/\ currentRoomId[u] # Nil
         /\ currentRoomId[v] # Nil
         /\ selectedChatId[u] = v
         /\ selectedChatId[v] = u)
        => currentRoomId[u] = currentRoomId[v]

\* two different users have selected each other and both rooms are derived
C17_Witness ==
    \E u \in Ids : \E v \in Ids :
        /\ StrLess(v, u)
        /\ selectedChatId[u] = v
        /\ selectedChatId[v] = u
        /\ currentRoomId[u] # Nil
        /\ currentRoomId[u] = currentRoomId[v]

NoEdgeHyphen(s) == s[1] # "-" /\ s[Len(s)] # "-"

LastViewed == lastViewedTimestamps[A][currentRoomId[A]]

\* the displayed messages of A's page: those of the current room
Displayed == LET Keep(m) == m.roomId = currentRoomId[A] IN SelectSeq(chatHistory[A], Keep)

\* the time of a displayed message: created_at when present, else timestamp
TimeOf(m) == IF m.created_at # NoTime THEN m.created_at.t ELSE m.timestamp

\* a peer-sent message whose time is greater than lastViewed
Qualifies(m) == m.sender = "other" /\ TimeOf(m) > LastViewed

\* firstUnreadIndex, counted from 1; 0 is none
Pointed == firstUnreadIndex(A) + 1

\* C19: firstUnreadIndex is none whenever lastViewed is 0; otherwise it
\* points to a qualifying peer message such that no qualifying peer message
\* of the sequence has a smaller time, and it is none when none qualifies.
C19_EarliestUnread ==
    /\ LastViewed = 0 => Pointed = 0
    /\ LastViewed > 0 =>
          IF \E j \in 1..Len(Displayed) : Qualifies(Displayed[j])
          THEN /\ Pointed \in 1..Len(Displayed)
               /\ Qualifies(Displayed[Pointed])
               /\ \A j \in 1..Len(Displayed) :
                      Qualifies(Displayed[j]) =>
                          TimeOf(Displayed[j]) >= TimeOf(Displayed[Pointed])
          ELSE Pointed = 0

\* the displayed messages are in non-decreasing order of their times
InTimeOrder ==
    \A i \in 1..Len(Displayed) : \A j \in 1..Len(Displayed) :
        i < j => TimeOf(Displayed[i]) <= TimeOf(Displayed[j])

\* C19, amended: firstUnreadIndex is none whenever lastViewed is 0;
\* otherwise it points to the first qualifying peer message in display
\* order, which is the earliest one by time whenever the displayed sequence
\* is in time order, and it is none when none qualifies.
C19_FirstUnreadInDisplayOrder ==
    /\ LastViewed = 0 => Pointed = 0
    /\ LastViewed > 0 =>
          IF \E j \in 1..Len(Displayed) : Qualifies(Displayed[j])
          THEN /\ Pointed \in 1..Len(Displayed)
               /\ Qualifies(Displayed[Pointed])
               /\ \A j \in 1..(Pointed - 1) : ~Qualifies(Displayed[j])
               /\ InTimeOrder =>
                      \A j \in 1..Len(Displayed) :
                          Qualifies(Displayed[j]) =>
                              TimeOf(Displayed[j]) >= TimeOf(Displayed[Pointed])
          ELSE Pointed = 0

\* the marker is set, the sequence is in time order and its second message
\* is the first unread one, after a message that does not qualify
C19_Witness ==
    /\ LastViewed > 0
    /\ InTimeOrder
    /\ Len(Displayed) = 2
    /\ ~Qualifies(Displayed[1])
    /\ Qualifies(Displayed[2])
    /\ firstUnreadIndex(A) = 1

\* ------------------------------------------------------------- own echo
\* u's page handles a receiveMessage event that carries u's own id
HandlesOwnMessage(u) ==
    /\ link[u] # 0
    /\ link'[u] = link[u]
    /\ inbox[link[u]] # <<>>
    /\ inbox'[link[u]] = Tail(inbox[link[u]])
    /\ Head(inbox[link[u]]).senderId = u

\* C20: the page ignores every receiveMessage whose senderId is its own
\* user id: handling such an event leaves the local sequence of messages
\* as it was.
C20_OwnEchoIgnored ==
    [][\A u \in Clients : HandlesOwnMessage(u) => chatHistory'[u] = chatHistory[u]]_vars

\* a message with A's id was relayed to A's page while it showed the room,
\* the page has handled it and shows no message of A's
C20_Witness ==
    /\ InRoom
    /\ currentRoomId[A] = createRoomId(A, B)
    /\ sent # <<>>
    /\ sent[1].senderId = A
    /\ sent[1].roomId = createRoomId(A, B)
    /\ inbox[link[A]] = <<>>
    /\ chatHistory[A] = <<>>

\* ------------------------------------------------------ room of a message
\* u's page handles the next receiveMessage event of its socket
Receives(u) ==
    /\ link[u] # 0
    /\ link'[u] = link[u]
    /\ inbox[link[u]] # <<>>
    /\ inbox'[link[u]] = Tail(inbox[link[u]])

\* chatHistory[u] grows by one entry, which is the message as a peer's
AppendsMessage(u, msg) ==
    LET n == Len(chatHistory[u])
    IN  /\ Len(chatHistory'[u]) = n + 1
        /\ SubSeq(chatHistory'[u], 1, n) = chatHistory[u]
        /\ chatHistory'[u][n + 1].text = msg.text
        /\ chatHistory'[u][n + 1].roomId = msg.roomId
        /\ chatHistory'[u][n + 1].senderId = msg.senderId
        /\ chatHistory'[u][n + 1].sender = "other"

\* C21: a receiveMessage from the peer is appended to the local sequence if
\* and only if its roomId is the room the page has currently joined; an
\* event for any other room leaves the local sequence unchanged.
C21_AppendIffCurrentRoom ==
    [][\A u \in Clients :
          (Receives(u) /\ Head(inbox[link[u]]).senderId # u)
              => IF Head(inbox[link[u]]).roomId = currentRoomId[u]
                 THEN AppendsMessage(u, Head(inbox[link[u]]))
                 ELSE chatHistory'[u] = chatHistory[u]]_vars

\* B's message for the room of A and B reached A's page, whose connection
\* has been in that room since B wrote; the page, now in the room of A and
\* C, has handled the event and has appended nothing
C21_Witness ==
    /\ InRoom
    /\ sent # <<>>
    /\ sent[1].senderId = B
    /\ sent[1].roomId = createRoomId(A, B)
    /\ currentRoomId[A] = createRoomId(A, C)
    /\ inbox[link[A]] = <<>>
    /\ recvLog[A] = <<>>

\* ------------------------------------------------------------ history load
\* the messages of room r in the store, in the order of the table
StoreOfRoom(r) == LET InR(row) == row.room_id = r IN SelectSeq(store, InR)

\* created_at of x is not later than created_at of y
NotLater(x, y) == x.t < y.t \/ (x.t = y.t /\ x.n <= y.n)

\* the store answers the i-th history query of u in this step
QueryAnswered(u, i) ==
    /\ i \in 1..Len(fetches[u])
    /\ Len(fetches'[u]) = Len(fetches[u])
    /\ fetches[u][i].stage = "query"
    /\ fetches'[u][i].stage = "data"

\* the i-th history load of u completes successfully in this step
LoadCompletes(u, i) ==
    /\ i \in 1..Len(fetches[u])
    /\ fetches[u][i].stage = "data"
    /\ fetches'[u] = RemoveAt(fetches[u], i)

\* sequence h shows exactly the rows, in their order, as user u sees them
ShowsRows(u, h, rows) ==
    /\ Len(h) = Len(rows)
    /\ \A j \in 1..Len(h) :
          /\ h[j].id = rows[j].id
          /\ h[j].text = rows[j].message_text
          /\ h[j].senderId = rows[j].sender_id
          /\ h[j].roomId = rows[j].room_id
          /\ h[j].created_at = rows[j].created_at
          /\ h[j].sender = "me" <=> rows[j].sender_id = u
    /\ \A j \in 1..Len(h) : \A k \in 1..Len(h) :
          j < k => NotLater(h[j].created_at, h[k].created_at)

\* C22: when a history load for a room completes successfully, the local
\* sequence is replaced wholesale by exactly the messages the store held
\* for that room when it answered the load's query, in ascending created_at
\* order; no entry of the previous local sequence survives.
C22_LoadReplacesWholesale ==
    [][\A u \in Clients : \A i \in 1..Len(fetches[u]) :
          /\ QueryAnswered(u, i)
                => fetches'[u][i].rows = StoreOfRoom(fetches[u][i].roomId)
          /\ LoadCompletes(u, i)
                => ShowsRows(u, chatHistory'[u], fetches[u][i].rows)]_vars

\* A's load of the room has completed with the one message the store held;
\* the entry of a message A submitted meanwhile, still being written, is
\* gone from the sequence
C22_Witness ==
    /\ loaded[A] = createRoomId(A, B)
    /\ fetches[A] = <<>>
    /\ Len(chatHistory[A]) = 1
    /\ chatHistory[A][1].id = DbId(1)
    /\ \E k \in 1..Len(sends) :
          /\ sends[k].u = A
          /\ sends[k].stage = "insert"
          /\ \A j \in 1..Len(chatHistory[A]) : chatHistory[A][j].id # sends[k].tempId

\* -------------------------------------------------- joining and leaving
\* C23: joinRoom is idempotent (joining a room the connection is in leaves
\* the membership unchanged), leaveRoom of a room the connection has not
\* joined changes nothing, and a connection can be in several rooms at once:
\* joining a room takes it out of none of its rooms.
C23_JoinLeaveAlgebra ==
    [][\A c \in Conns :
        /\ HandlesEvent(c, "joinRoom") =>
              /\ Head(outbox[c]).roomId \in rooms'[c]
              /\ rooms[c] \subseteq rooms'[c]
              /\ Head(outbox[c]).roomId \in rooms[c] => rooms' = rooms
              /\ \A d \in Conns \ {c} : rooms'[d] = rooms[d]
        /\ (HandlesEvent(c, "leaveRoom") /\ Head(outbox[c]).roomId \notin rooms[c]) =>
              relayVars' = relayVars]_vars

\* a connection is in both rooms of A and is about to join one of them again
C23_Witness ==
    \E c \in Conns :
        /\ connState[c] = "open"
        /\ {createRoomId(A, B), createRoomId(A, C)} \subseteq rooms[c]
        /\ outbox[c] = <<[type |-> "joinRoom", roomId |-> createRoomId(A, B)]>>

\* ---------------------------------------------------------------- no retry
\* the sendMessage event that the page emits in this step, if any
EmitsSendMessage(c) ==
    /\ Len(outbox'[c]) > Len(outbox[c])
    /\ outbox'[c][Len(outbox'[c])].type = "sendMessage"

\* C24: a persistence failure is never retried: each submit causes at most
\* one append attempt to the store and at most one sendMessage event.  The
\* insert of a submit is attempted once, a row is written only by that
\* attempt, a failed attempt is final, and the event is emitted at most once,
\* after the attempt has succeeded.
C24_NoRetry ==
    [][/\ \A k \in 1..Len(sends) :
            /\ sends[k].stage # "insert" => sends'[k].stage # "insert"
            /\ sends[k].stage \in {"error", "throw"} => sends'[k].stage \in {sends[k].stage, "done"}
            /\ sends[k].stage = "done" => sends'[k] = sends[k]
            /\ Cardinality({i \in 1..Len(store') : store'[i].tag = k}) <= 1
            /\ Cardinality({i \in 1..Len(sent') : sent'[i].tag = k}) <= 1
       /\ Len(store') > Len(store) =>
            /\ Len(store') = Len(store) + 1
            /\ sends[store'[Len(store')].tag].stage = "insert"
            /\ sends'[store'[Len(store')].tag].stage = "ok"
       /\ \A c \in Conns : EmitsSendMessage(c) =>
            /\ Len(outbox'[c]) = Len(outbox[c]) + 1
            /\ sends[outbox'[c][Len(outbox'[c])].data.tag].stage = "ok"
            /\ sends'[outbox'[c][Len(outbox'[c])].data.tag].stage = "done"]_vars

\* the write of a submit has failed and handleSend has run to its end:
\* nothing was stored, nothing was emitted, nothing is being tried
C24_Witness ==
    \E k \in 1..Len(sends) :
        /\ sends[k].stage = "done"
        /\ sends[k].failed
        /\ ~sends[k].emitted
        /\ \A i \in 1..Len(store) : store[i].tag # k
        /\ \A i \in 1..Len(sent) : sent[i].tag # k
        /\ message[sends[k].u] = sends[k].text

\* ------------------------------------------------------------ interleaving
\* the presence entries of the users other than u are as they were
OtherEntriesKept(u) ==
    \A v \in Users \ {u} :
        /\ MapHas(userSocketMap', v) <=> MapHas(userSocketMap, v)
        /\ MapHas(userSocketMap, v) => MapGet(userSocketMap', v) = MapGet(userSocketMap, v)

\* the rooms of the connections other than c are as they were
OtherRoomsKept(c) == \A d \in Conns \ {c} : rooms'[d] = rooms[d]

\* C25: under any interleaving of the events of different connections each
\* event is handled as a whole and none is lost: a registerUser sets the
\* entry of its user and leaves the other entries alone, a joinRoom or
\* leaveRoom changes the membership of its connection only, a sendMessage
\* changes neither, and a disconnect empties the rooms of its connection
\* and touches no entry that refers to another connection.
C25_HandlersDoNotInterfere ==
    [][\A c \in Conns :
        /\ HandlesEvent(c, "registerUser") =>
              /\ MapHas(userSocketMap', Head(outbox[c]).userId)
              /\ MapGet(userSocketMap', Head(outbox[c]).userId) = SocketId(c)
              /\ OtherEntriesKept(Head(outbox[c]).userId)
              /\ rooms' = rooms
        /\ HandlesEvent(c, "joinRoom") =>
              /\ rooms'[c] = rooms[c] \cup {Head(outbox[c]).roomId}
              /\ OtherRoomsKept(c)
              /\ userSocketMap' = userSocketMap
        /\ HandlesEvent(c, "leaveRoom") =>
              /\ rooms'[c] = rooms[c] \ {Head(outbox[c]).roomId}
              /\ OtherRoomsKept(c)
              /\ userSocketMap' = userSocketMap
        /\ HandlesEvent(c, "sendMessage") =>
              /\ rooms' = rooms
              /\ userSocketMap' = userSocketMap
        /\ (connState[c] = "open" /\ connState'[c] = "closed") =>
              /\ rooms'[c] = {}
              /\ OtherRoomsKept(c)
              /\ \A u \in Users :
                    (MapHas(userSocketMap, u) /\ MapGet(userSocketMap, u) # SocketId(c))
                        => /\ MapHas(userSocketMap', u)
                           /\ MapGet(userSocketMap', u) = MapGet(userSocketMap, u)]_vars

\* two connections have registered different users and joined the same
\* room while both were open: both entries and both memberships are there
C25_Witness ==
    \E c \in Conns : \E d \in Conns \ {c} :
        /\ connState[c] = "open"
        /\ connState[d] = "open"
        /\ createRoomId(A, B) \in rooms[c]
        /\ createRoomId(A, B) \in rooms[d]
        /\ MapHas(userSocketMap, A) /\ MapGet(userSocketMap, A) = SocketId(c)
        /\ MapHas(userSocketMap, B) /\ MapGet(userSocketMap, B) = SocketId(d)

\* ------------------------------------------------- membership of the page
\* C26: whenever a page has a selected peer and its socket is connected, and
\* the relay has handled the events the page has emitted, the page's
\* connection is a member of the room for the selected peer, also after the
\* socket has disconnected and connected again with the same peer selected.
C26_MemberOfSelectedRoom ==
    \A u \in Clients :
        (/\ selectedChatId[u] # Nil
         /\ isSocketConnected[u]
         /\ link[u] # 0
         /\ connState[link[u]] = "open"
         /\ outbox[link[u]] = <<>>)
            => createRoomId(u, selectedChatId[u]) \in rooms[link[u]]

\* ------------------------------------------------------- visible failures
\* the state of u's page that it renders
PageView(u) ==
    [chatHistory |-> chatHistory[u], message |-> message[u],
     selectedChatId |-> selectedChatId[u], currentRoomId |-> currentRoomId[u],
     isSocketConnected |-> isSocketConnected[u],
     lastViewedTimestamps |-> lastViewedTimestamps[u]]

\* what the page renders once a load has returned no rows
ViewAfterEmptyLoad(u) == [PageView(u) EXCEPT !.chatHistory = <<>>]

\* the i-th history load of u completes in this step after its query failed
LoadFails(u, i) ==
    /\ i \in 1..Len(fetches[u])
    /\ fetches[u][i].stage \in {"error", "throw"}
    /\ fetches'[u] = RemoveAt(fetches[u], i)

\* handleSend of submit k ends in this step after its insert failed
WriteFails(k) ==
    /\ k \in 1..Len(sends)
    /\ sends[k].stage \in {"error", "throw"}
    /\ sends'[k].stage = "done"

\* C27: a failed durable operation is never silently dropped: a failed
\* write leaves the page without the entry and with the text back in the
\* input, and a failed history read leaves the page in a state that differs
\* from the state after a successful read of a room with no messages.
C27_FailuresVisible ==
    [][/\ \A k \in 1..Len(sends) : WriteFails(k) =>
            /\ \A j \in 1..Len(chatHistory'[sends[k].u]) :
                    chatHistory'[sends[k].u][j].id # sends[k].tempId
            /\ message'[sends[k].u] = sends[k].text
       /\ \A u \in Clients : \A i \in 1..Len(fetches[u]) : LoadFails(u, i) =>
            PageView(u)' # ViewAfterEmptyLoad(u)]_vars

\* the part of C27 on failed writes
C27_FailedWriteVisible ==
    [][\A k \in 1..Len(sends) : WriteFails(k) =>
            /\ \A j \in 1..Len(chatHistory'[sends[k].u]) :
                    chatHistory'[sends[k].u][j].id # sends[k].tempId
            /\ message'[sends[k].u] = sends[k].text]_vars

\* ------------------------------------------------- index of the first unread
\* the displayed message at index i, counted from 0, was not sent by A and
\* its time is greater than the marker
UnreadAt(i) ==
    /\ Displayed[i + 1].senderId # A
    /\ TimeOf(Displayed[i + 1]) > LastViewed

\* C28: when lastViewed is greater than 0, firstUnreadIndex is the smallest
\* index of the displayed sequence whose message was not sent by the user
\* and has a time greater than lastViewed; no smaller index is such, and the
\* result is -1 if no index is.
C28_SmallestUnreadIndex ==
    LastViewed > 0 =>
        IF firstUnreadIndex(A) = -1
        THEN \A i \in 0..(Len(Displayed) - 1) : ~UnreadAt(i)
        ELSE /\ firstUnreadIndex(A) \in 0..(Len(Displayed) - 1)
             /\ UnreadAt(firstUnreadIndex(A))
             /\ \A i \in 0..(firstUnreadIndex(A) - 1) : ~UnreadAt(i)

\* the marker is set and two messages are unread, the second with a time
\* smaller than the first: the index is that of the first
C28_Witness ==
    /\ LastViewed > 0
    /\ Len(Displayed) = 2
    /\ UnreadAt(0)
    /\ UnreadAt(1)
    /\ TimeOf(Displayed[2]) < TimeOf(Displayed[1])
    /\ firstUnreadIndex(A) = 0

\* ------------------------------------------------------- frame of dispatch
\* inbox d is as it was, or has the payload of the event as one more entry
FanOutOnly(d, data) ==
    \/ inbox'[d] = inbox[d]
    \/ /\ Len(inbox'[d]) = Len(inbox[d]) + 1
       /\ SubSeq(inbox'[d], 1, Len(inbox[d])) = inbox[d]
       /\ inbox'[d][Len(inbox'[d])].text = data.text
       /\ inbox'[d][Len(inbox'[d])].roomId = data.roomId
       /\ inbox'[d][Len(inbox'[d])].senderId = data.senderId

\* C29: handling a sendMessage event changes neither the presence map nor
\* any room membership and writes nothing to the store; the relay's only
\* effect is the receiveMessage fan-out.
C29_DispatchFrame ==
    [][\A c \in Conns : HandlesEvent(c, "sendMessage") =>
          /\ userSocketMap' = userSocketMap
          /\ rooms' = rooms
          /\ connState' = connState
          /\ store' = store
          /\ \A d \in Conns : FanOutOnly(d, Head(outbox[c]).data)
          /\ UNCHANGED <<sends, fetches, chatHistory, message, currentRoomId,
                         lastViewedTimestamps, warnings>>]_vars

\* the relay has handled the sendMessage of a persisted message of A and
\* has passed it on to B; both users are registered and in the room
C29_Witness ==
    /\ Len(sent) = 1
    /\ Len(store) = 1
    /\ MapHas(userSocketMap, A)
    /\ MapHas(userSocketMap, B)
    /\ link[A] # 0 /\ createRoomId(A, B) \in rooms[link[A]]
    /\ link[B] # 0 /\ createRoomId(A, B) \in rooms[link[B]]
    /\ inbox[link[B]] # <<>>

\* ------------------------------------------------- ids and times of rows
\* the fields of a relayed payload: those of the event and the history fields
PayloadFields == {"text", "roomId", "senderId", "ev", "from", "tag"}

\* every row has an id of the store's, none is a temporary id of a submit
RowsHaveStoreIds ==
    \A i \in 1..Len(store) :
        /\ store[i].id = DbId(i)
        /\ \A k \in 1..Len(sends) : store[i].id # sends[k].tempId

\* no payload, on its way to the relay or relayed, has an id or a time
PayloadsHaveNoIdOrTime ==
    /\ \A i \in 1..Len(sent) : DOMAIN sent[i] = PayloadFields
    /\ \A c \in Conns : \A i \in 1..Len(inbox[c]) : DOMAIN inbox[c][i] = PayloadFields
    /\ \A c \in Conns : \A i \in 1..Len(outbox[c]) :
            outbox[c][i].type = "sendMessage" =>
                DOMAIN outbox[c][i].data = {"text", "roomId", "senderId", "tag"}

\* C30: the id and created_at of every row are assigned by the store when
\* it persists the row: the write of the page carries room_id, sender_id
\* and text only, and the page's temporary id or local timestamp appears in
\* no row and in no relayed payload.
C30_StoreAssignsIdAndTime ==
    [][/\ RowsHaveStoreIds'
       /\ PayloadsHaveNoIdOrTime'
       /\ Len(store') > Len(store) =>
            LET row == store'[Len(store')]
                s == sends[row.tag]
            IN  /\ Len(store') = Len(store) + 1
                /\ row.created_at = [t |-> clock, n |-> Len(store')]
                /\ row.room_id = s.roomId
                /\ row.sender_id = s.u
                /\ row.message_text = s.text]_vars

\* a persisted and relayed message whose created_at is not the time the
\* page stamped on its entry
C30_Witness ==
    \E i \in 1..Len(store) :
        /\ store[i].created_at.t # sends[store[i].tag].tempId.n
        /\ \E j \in 1..Len(sent) : sent[j].tag = store[i].tag

\* ------------------------------------------------------ last-viewed marker
\* everything but the markers is as it was
OnlyMarkersChange ==
    /\ UNCHANGED relayVars
    /\ UNCHANGED <<outbox, clock, store, sends, fetches, message, chatHistory, selectedChatId,
                   currentRoomId, socketSet, isSocketConnected, link, recvLog, loaded, warnings>>

\* C31: focusing the input while room r is the current room sets the
\* marker of r to the current time and leaves the markers of the other
\* rooms as they were; focusing with no current room changes no marker; no
\* other operation changes any marker.  So every step that changes a marker
\* changes the marker of the current room of one page, to the current time,
\* and nothing else.
C31_OnlyFocusSetsMarker ==
    [][lastViewedTimestamps' # lastViewedTimestamps =>
          \E u \in Clients :
              /\ currentRoomId[u] # Nil
              /\ lastViewedTimestamps'[u][currentRoomId[u]] = clock
              /\ \A r \in AllRooms \ {currentRoomId[u]} :
                    lastViewedTimestamps'[u][r] = lastViewedTimestamps[u][r]
              /\ \A v \in Clients \ {u} : lastViewedTimestamps'[v] = lastViewedTimestamps[v]
              /\ OnlyMarkersChange]_vars

\* A focused the input in the room of A and B, and later in the room of A
\* and C: each marker has the time of its focus
C31_Witness ==
    /\ currentRoomId[A] = createRoomId(A, C)
    /\ lastViewedTimestamps[A][createRoomId(A, B)] = 1
    /\ lastViewedTimestamps[A][createRoomId(A, C)] = 2
    /\ sends # <<>>

\* ------------------------------------------------- confirmed messages stay
\* the sequence h shows submit k under the id the store gave its row
ShowsConfirmed(h, k) ==
    \E i \in 1..Len(h) : h[i].tag = k /\ h[i].id = store[sends[k].row].id

\* C32: once a message of a page has been confirmed, it stays in the page's
\* sequence for as long as its room remains the current room; a response of
\* a history load that arrives after the confirmation does not remove it.
C32_ConfirmedStays ==
    [][\A k \in 1..Len(sends) :
          (/\ sends[k].stage = "done"
           /\ sends[k].confirmed
           /\ ShowsConfirmed(chatHistory[sends[k].u], k)
           /\ currentRoomId[sends[k].u] = sends[k].roomId
           /\ currentRoomId'[sends[k].u] = sends[k].roomId)
              => ShowsConfirmed(chatHistory'[sends[k].u], k)]_vars

\* ------------------------------------------------ loads of another room
\* C33: the response of a history load started for a room the page has
\* left does not overwrite the sequence of the room the page is in now, so
\* that the sequence holds the history of the selected room once every
\* load has completed.
C33_StaleRoomLoadIgnored ==
    [][\A u \in Clients : \A i \in 1..Len(fetches[u]) :
          (LoadCompletes(u, i) /\ fetches[u][i].roomId # currentRoomId[u])
              => chatHistory'[u] = chatHistory[u]]_vars

\* -------------------------------------------------- success is not failure
\* handleSend of submit k ends in this step after its insert succeeded
WriteSucceeds(k) ==
    /\ k \in 1..Len(sends)
    /\ sends[k].stage = "ok"
    /\ sends'[k].stage = "done"

\* C34: the text is put back into the input and the send is handled as
\* failed only if the write failed: when the write has succeeded the input
\* is not refilled, the send is not handled as failed, and the entry, if
\* the sequence still has it, stays as confirmed, also when the socket has
\* disconnected while the write was in flight.
C34_SuccessNotHandledAsFailure ==
    [][\A k \in 1..Len(sends) : WriteSucceeds(k) =>
          /\ message'[sends[k].u] = message[sends[k].u]
          /\ ~sends'[k].failed
          /\ (\E i \in 1..Len(chatHistory[sends[k].u]) :
                    chatHistory[sends[k].u][i].tag = k)
                => ShowsConfirmed(chatHistory'[sends[k].u], k)]_vars

\* ------------------------------------------------ frame of a confirmation
\* the entries of h that do not belong to submit k
OtherEntries(h, k) == LET NotK(m) == m.tag # k IN SelectSeq(h, NotK)

\* C35: confirming or failing a pending message changes the entry of that
\* message only: every other entry keeps its id, timestamp, text and place
\* in the sequence, also when two messages were submitted at the same
\* reading of the clock.
C35_OtherEntriesKept ==
    [][\A k \in 1..Len(sends) : (WriteSucceeds(k) \/ WriteFails(k)) =>
          OtherEntries(chatHistory'[sends[k].u], k) = OtherEntries(chatHistory[sends[k].u], k)]_vars

\* ------------------------------------------- the event equals the row
\* the payload belongs to a submit and equals the row persisted for it
EqualsItsRow(data) ==
    /\ data.tag \in 1..Len(sends)
    /\ sends[data.tag].row # 0
    /\ data.text = store[sends[data.tag].row].message_text
    /\ data.roomId = store[sends[data.tag].row].room_id
    /\ data.senderId = store[sends[data.tag].row].sender_id

\* C36: the roomId, senderId and text of the sendMessage event emitted for
\* a message equal the room_id, sender_id and message_text persisted for
\* it, also when the user selects another peer while the write is in
\* flight.
C36_EventEqualsRow ==
    /\ \A c \in Conns : \A i \in 1..Len(outbox[c]) :
            outbox[c][i].type = "sendMessage" => EqualsItsRow(outbox[c][i].data)
    /\ \A i \in 1..Len(sent) : EqualsItsRow(sent[i])

\* A submitted in the room of A and B and selected C while the write was
\* in flight: the event for the room of A and B was emitted after the
\* joinRoom for the room of A and C
C36_Witness ==
    /\ link[A] # 0
    /\ currentRoomId[A] = createRoomId(A, C)
    /\ \E i \in 1..Len(outbox[link[A]]) : \E j \in 1..Len(outbox[link[A]]) :
            /\ i < j
            /\ outbox[link[A]][i] = [type |-> "joinRoom", roomId |-> createRoomId(A, C)]
            /\ outbox[link[A]][j].type = "sendMessage"
            /\ outbox[link[A]][j].data.roomId = createRoomId(A, B)

\* ------------------------------------------------- who receives a message
\* the rooms connection d has joined by a joinRoom of its own and has not
\* left, where no connection joins a room named by a socket id
JoinedRooms(d) == rooms[d] \ {SocketId(d)}

\* the receiveMessage event that reaches connection d in this step
Delivered(d) == inbox'[d][Len(inbox'[d])]

\* C37: a receiveMessage with roomId r is delivered only to connections
\* that are members of r at dispatch time: a connection that never joined
\* r, or that has left r, never receives a message for r.
C37_OnlyJoinedReceive ==
    [][\A d \in Conns :
          Len(inbox'[d]) > Len(inbox[d]) => Delivered(d).roomId \in JoinedRooms(d)]_vars

\* the part of C37 on the members of a room as the relay keeps them
C37_OnlyMembersReceive ==
    [][\A d \in Conns :
          Len(inbox'[d]) > Len(inbox[d]) =>
              /\ Delivered(d).roomId \in rooms[d]
              /\ Delivered(d).from # d]_vars

\* ------------------------------------------- presence after a disconnect
\* C38: after a connection has disconnected, no entry of the presence map
\* refers to it, whatever registerUser events it sent before, registrations
\* of more than one user id on the same connection included.
C38_NoEntryOfClosedConnection ==
    \A c \in Conns :
        connState[c] = "closed" =>
            \A i \in 1..Len(userSocketMap) : userSocketMap[i].socketId # SocketId(c)

\* ------------------------------------------------------ refused submits
\* a text of white space only, or no text
IsBlank(text) == text \in {"", " "}

\* the fields of a sendMessage payload or of a row that hold a blank text
BlankRows == {i \in 1..Len(store) : IsBlank(store[i].message_text)}

BlankEmits ==
    {<<c, i>> \in Conns \X (1..MaxSubmits) :
        /\ i <= Len(outbox[c])
        /\ outbox[c][i].type = "sendMessage"
        /\ IsBlank(outbox[c][i].data.text)}

BlankRelayed == {i \in 1..Len(sent) : IsBlank(sent[i].text)}

\* C39: a submit has no effect (nothing appended to the sequence, nothing
\* written to the store, nothing emitted, the input unchanged) unless the
\* socket is connected, the text is not blank, a room is joined and a peer
\* is selected; so no blank message is ever persisted or relayed by the
\* page.  A step in which a call of handleSend starts a send is taken with
\* all the conditions true; a step in which handleSend refuses changes
\* nothing but the log of warnings; no row and no sendMessage event holds a
\* blank text.
C39_SubmitNeedsAll ==
    /\ [](BlankRows = {} /\ BlankEmits = {} /\ BlankRelayed = {})
    /\ [][\A u \in Clients :
            /\ (Len(sends') > Len(sends) /\ sends'[Len(sends')].u = u) =>
                    /\ socketSet[u]
                    /\ isSocketConnected[u]
                    /\ ~IsBlank(message[u])
                    /\ currentRoomId[u] # Nil
                    /\ selectedChatId[u] # Nil
            /\ warnings'[u] # warnings[u] =>
                    /\ chatHistory' = chatHistory
                    /\ store' = store
                    /\ sends' = sends
                    /\ outbox' = outbox
                    /\ message' = message
                    /\ UNCHANGED relayVars]_vars

\* a submit of a blank text with everything else in place was refused, and
\* nothing has been sent
C39_Witness ==
    /\ \E i \in 1..Len(warnings[A]) :
            warnings[A][i] = [hasMessage |-> FALSE, isConnected |-> TRUE, hasRoom |-> TRUE,
                              hasSelectedChat |-> TRUE, hasSocket |-> TRUE]
    /\ message[A] = " "
    /\ sends = <<>>
    /\ store = <<>>
    /\ chatHistory[A] = <<>>

====
